---- MODULE Spec2Model ----
(***************************************************************************)
(* A model of the InkML decoder (package inkml): the definition harvester  *)
(* (Reader.read_definitions), the reference resolver (references.py), the  *)
(* trace reader and the channel decoder (Reader.parse_trace_content), and  *)
(* the orchestrator Reader.read that runs them in that order.              *)
(*                                                                         *)
(* Conventions.  A Python str is a sequence of one-character strings, so   *)
(* that "#a"[1:] is Tail(<<"#","a">>).  An XML element is a record         *)
(* [tag, attrs, children, text, tail]; attrs is a function from attribute  *)
(* names to values.  A Python dict is a sequence of [k, v] pairs in        *)
(* insertion order.  An object holds the fields that the model follows,    *)
(* not the properties and annotations that are only stored.                *)
(* Accountable objects (Context, Brush, Timestamp, TraceFormat,            *)
(* InkSource) live in a heap; a reference to one is its place there, from 0 *)
(* on, NullRef standing for None.  Only the TraceFormat and the InkSource  *)
(* have an instance_index: Accountable.__init__ does not run for the       *)
(* classes that derive from IHeritable first.                              *)
(***************************************************************************)
EXTENDS Integers, Sequences, FiniteSets, TLC

\* ------------------------------------------------------------------ values

\* Python's None where a str is expected (no str of the model is equal to it).
None == <<"None">>

\* Python's None where an object reference is expected.
NullRef == 0 - 1

\* The set of elements of a sequence.
Range(s) == {s[i] : i \in 1..Len(s)}

\* ---------------------------------------------------------------- ids.py

is_local_id(uri) == Len(uri) > 1 /\ uri[1] = "#"

to_local_id(uri) == IF is_local_id(uri) THEN Tail(uri) ELSE uri

\* ------------------------------------------------------------ Python dict

EmptyDict == <<>>

Has(d, k) == \E i \in 1..Len(d) : d[i].k = k

Get(d, k) == d[CHOOSE i \in 1..Len(d) : d[i].k = k].v

\* d[k] = v : an existing key keeps its place, a new key goes last.
Put(d, k, v) ==
    IF Has(d, k)
    THEN [d EXCEPT ![CHOOSE i \in 1..Len(d) : d[i].k = k] = [k |-> k, v |-> v]]
    ELSE Append(d, [k |-> k, v |-> v])

\* del d[k]
Del(d, k) == SelectSeq(d, LAMBDA e : e.k # k)

Keys(d) == {d[i].k : i \in 1..Len(d)}

\* list(d.values())
Values(d) == [i \in 1..Len(d) |-> d[i].v]

\* ------------------------------------------------------------ XML elements

NoAttrs == [x \in {} |-> <<>>]

\* element.text of an element without text, element.tail of an element
\* that no text follows
NoText == None

Elem(tag, attrs, children) ==
    [tag |-> tag, attrs |-> attrs, children |-> children, text |-> NoText,
     tail |-> NoText]

has(e, name) == name \in DOMAIN e.attrs

\* element.get(name), where the attribute is present
get(e, name) == e.attrs[name]

\* element.findall('inkml:<tag>') : the direct children with that tag
findall(e, tag) == SelectSeq(e.children, LAMBDA c : c.tag = tag)

\* element.find('inkml:<tag>') is not None
found(e, tag) == findall(e, tag) # <<>>

\* element.find('inkml:<tag>') : the first direct child with that tag
find(e, tag) == findall(e, tag)[1]

get_id(e) ==
    IF has(e, "xml:id") THEN get(e, "xml:id")
    ELSE IF has(e, "id") THEN get(e, "id")
    ELSE None

\* ------------------------------------------------------------- numbers
\* A float of the model is a multiple of 1/2, held as the integer number of
\* halves (binary floating point is exact on them): 3 is 1.5.  An int is held
\* in the same way where it stands beside floats (a channel value, a
\* duration), so that 10 is the int 5.

Digits == {"0", "1", "2", "3", "4", "5", "6", "7", "8", "9"}

\* The white space that XML text can hold, among the characters of the model
\* (those up to U+00FF): what str.strip() removes, what float() and int()
\* allow around a number and what \s of a regular expression matches.  The
\* last two are U+0085 and U+00A0.
Whitespace == {" ", "\t", "\n", "\r", "", " "}

\* str.strip()
RECURSIVE lstrip(_)
lstrip(s) == IF s # <<>> /\ Head(s) \in Whitespace THEN lstrip(Tail(s)) ELSE s

RECURSIVE rstrip(_)
rstrip(s) ==
    IF s # <<>> /\ s[Len(s)] \in Whitespace THEN rstrip(SubSeq(s, 1, Len(s) - 1)) ELSE s

strip(s) == rstrip(lstrip(s))

HexDigits == <<"0", "1", "2", "3", "4", "5", "6", "7", "8", "9",
               "A", "B", "C", "D", "E", "F">>

LowerHexDigits == <<"0", "1", "2", "3", "4", "5", "6", "7", "8", "9",
                    "a", "b", "c", "d", "e", "f">>

DigitValue(c) ==
    IF c \in Range(HexDigits)
    THEN (CHOOSE i \in 1..Len(HexDigits) : HexDigits[i] = c) - 1
    ELSE (CHOOSE i \in 1..Len(LowerHexDigits) : LowerHexDigits[i] = c) - 1

\* The value of a digit string in the given base.
RECURSIVE digits_value(_, _)
digits_value(s, base) ==
    IF s = <<>> THEN 0
    ELSE digits_value(SubSeq(s, 1, Len(s) - 1), base) * base + DigitValue(s[Len(s)])

\* The underscores that int() and float() allow in a literal: each one
\* between two digits.
underscores_between(s, digits) ==
    \A i \in 1..Len(s) :
        s[i] = "_" => i > 1 /\ i < Len(s) /\ s[i - 1] \in digits /\ s[i + 1] \in digits

without_underscores(s) == SelectSeq(s, LAMBDA c : c # "_")

\* A non-empty str of digits of the class, with underscores between them
digit_groups(s, digits) ==
    /\ s # <<>>
    /\ \A i \in 1..Len(s) : s[i] \in digits \cup {"_"}
    /\ underscores_between(s, digits)

unsigned(t) == IF t # <<>> /\ Head(t) \in {"-", "+"} THEN Tail(t) ELSE t

sign_of(t) == IF t # <<>> /\ Head(t) = "-" THEN 0 - 1 ELSE 1

\* int(s): white space, a sign, decimal digits with underscores between
\* them, white space; ValueError (ok FALSE) otherwise.  v is the int itself.
int(s) ==
    IF digit_groups(unsigned(strip(s)), Digits)
    THEN [ok |-> TRUE,
          v |-> sign_of(strip(s)) * digits_value(without_underscores(unsigned(strip(s))), 10)]
    ELSE [ok |-> FALSE, v |-> 0]

\* The digits of a hexadecimal literal u without sign: what follows the
\* prefix 0x or 0X and one underscore after it, u itself without prefix.
hex_digits_of(u) ==
    IF Len(u) >= 2 /\ u[1] = "0" /\ u[2] \in {"x", "X"}
    THEN IF Len(u) >= 3 /\ u[3] = "_" THEN SubSeq(u, 4, Len(u)) ELSE SubSeq(u, 3, Len(u))
    ELSE u

\* int(s, 16), in halves; ValueError (ok FALSE) for a str that is no
\* hexadecimal literal.
int16(s) ==
    IF digit_groups(hex_digits_of(unsigned(strip(s))),
                    Range(HexDigits) \cup Range(LowerHexDigits))
    THEN [ok |-> TRUE,
          v |-> sign_of(strip(s))
                * 2 * digits_value(without_underscores(hex_digits_of(unsigned(strip(s)))), 16)]
    ELSE [ok |-> FALSE, v |-> 0]

\* The position of the first character of the class in s from i on, Len(s) + 1
\* where there is none.
RECURSIVE position(_, _, _)
position(s, class, i) ==
    IF i > Len(s) \/ s[i] \in class THEN i ELSE position(s, class, i + 1)

\* n * 10^p where that is a whole number of halves; other numbers are not
\* floats of the model.
scale(n, p) ==
    IF p >= 0 THEN n * 10^p
    ELSE CASE n % 10^(0 - p) = 0 -> n \div 10^(0 - p)

\* The parts of a decimal literal u without sign and underscores,
\*   (digits ["." [digits]] | "." digits) [("e" | "E") [sign] digits]
mantissa_of(u) == SubSeq(u, 1, position(u, {"e", "E"}, 1) - 1)

int_part(u) == SubSeq(mantissa_of(u), 1, position(mantissa_of(u), {"."}, 1) - 1)

frac_part(u) ==
    SubSeq(mantissa_of(u), position(mantissa_of(u), {"."}, 1) + 1, Len(mantissa_of(u)))

has_exponent(u) == position(u, {"e", "E"}, 1) <= Len(u)

exponent_part(u) == SubSeq(u, position(u, {"e", "E"}, 1) + 1, Len(u))

all_digits(s) == \A i \in 1..Len(s) : s[i] \in Digits

is_decimal(u) ==
    /\ int_part(u) # <<>> \/ frac_part(u) # <<>>
    /\ all_digits(int_part(u))
    /\ all_digits(frac_part(u))
    /\ has_exponent(u) =>
          unsigned(exponent_part(u)) # <<>> /\ all_digits(unsigned(exponent_part(u)))

\* The value of the decimal literal u, in halves.
decimal_value(u) ==
    scale(2 * digits_value(int_part(u) \o frac_part(u), 10),
          (IF has_exponent(u)
           THEN sign_of(exponent_part(u)) * digits_value(unsigned(exponent_part(u)), 10)
           ELSE 0) - Len(frac_part(u)))

\* str.lower() on the letters of inf, infinity and nan
lower_char(c) ==
    CASE c = "I" -> "i" [] c = "N" -> "n" [] c = "F" -> "f"
      [] c = "T" -> "t" [] c = "Y" -> "y" [] c = "A" -> "a"
      [] OTHER -> c

RECURSIVE lower(_)
lower(s) == IF s = <<>> THEN <<>> ELSE <<lower_char(Head(s))>> \o lower(Tail(s))

\* What names a float that is not a decimal: "inf", "nan", "" for no such
\* name.
special_of(u) ==
    IF lower(u) \in {<<"i", "n", "f">>, <<"i", "n", "f", "i", "n", "i", "t", "y">>}
    THEN "inf"
    ELSE IF lower(u) = <<"n", "a", "n">> THEN "nan"
    ELSE ""

\* The literal of float(s): s without the white space around it and, where
\* every underscore stands between two digits, without the underscores.
literal_of(s) ==
    IF underscores_between(strip(s), Digits) THEN without_underscores(strip(s))
    ELSE strip(s)

\* float(s) succeeds
is_float(s) ==
    \/ is_decimal(unsigned(literal_of(s)))
    \/ special_of(unsigned(literal_of(s))) # ""

\* float(s): ok is FALSE for ValueError; v is the value of a decimal literal
\* in halves, negative is its sign and special is "inf" or "nan" for those.
float(s) ==
    IF is_decimal(unsigned(literal_of(s)))
    THEN [ok |-> TRUE, special |-> "", negative |-> sign_of(literal_of(s)) < 0,
          v |-> sign_of(literal_of(s)) * decimal_value(unsigned(literal_of(s)))]
    ELSE [ok |-> is_float(s), special |-> special_of(unsigned(literal_of(s))),
          negative |-> sign_of(literal_of(s)) < 0, v |-> 0]

\* A variant that rounds a tie away from zero.
round_half_away(x) ==
    IF x % 2 = 0 THEN x ELSE IF x > 0 THEN x + 1 ELSE x - 1

\* round(x): Python rounds a tie to the even neighbour.
round(x) ==
    LET k == x \div 2
    IN  IF x % 2 = 0 THEN x
        ELSE IF k % 2 = 0 THEN 2 * k ELSE 2 * (k + 1)

\* A number held by an object: float('nan'), an infinity, or the finite
\* value v; NoNumber is Python's None where a number is expected.
NaN == [nan |-> TRUE, v |-> 0]

Finite(v) == [nan |-> FALSE, v |-> v]

Infinity(negative) == [nan |-> FALSE, inf |-> IF negative THEN "-inf" ELSE "inf"]

NoNumber == [none |-> TRUE]

isnan(d) == d.nan

\* The number that float(s) gives, s being a str that float takes
float_number(s) ==
    IF float(s).special = "nan" THEN NaN
    ELSE IF float(s).special = "inf" THEN Infinity(float(s).negative)
    ELSE Finite(float(s).v)

\* --------------------------------------------------- the reader's machine
\* The mutable things a reader method works on, threaded through the
\* operators below: the heap of Accountable objects, the heap of trace items,
\* the Definitions being filled, the messages written so far, and whether an
\* exception is propagating.

EmptyDefinitions ==
    [contexts |-> EmptyDict, brushes |-> EmptyDict, ink_sources |-> EmptyDict,
     trace_formats |-> EmptyDict, timestamps |-> EmptyDict, traces |-> EmptyDict,
     trace_groups |-> EmptyDict, trace_views |-> EmptyDict]

\* What n handlers write for one record
RECURSIVE emitted(_, _)
emitted(record, n) == IF n = 0 THEN <<>> ELSE <<record>> \o emitted(record, n - 1)

\* self.logger.warning(msg): every warning handler of the logger writes the
\* record.
warning(m, msg) ==
    [m EXCEPT !.log = @ \o emitted([sink |-> "warning", msg |-> msg, ids |-> {}],
                                   m.handlers)]

\* print(msg.format(ids)) : the resolver writes to standard output itself.
print(m, msg, ids) ==
    [m EXCEPT !.log = Append(@, [sink |-> "print", msg |-> msg, ids |-> ids])]

\* raise / an uncaught exception
raise(m, what) == [m EXCEPT !.raised = IF @ = "" THEN what ELSE @]

\* The reference that the next object created takes.
next_ref(m) == Len(m.heap)

\* Accountable.is_(self, other): isinstance(other, Accountable) holds for
\* every object of the heap; reading an instance_index that the object does
\* not have raises AttributeError.  The result is what is_ returns, or the
\* exception in `raised`.
is_(self, other) ==
    IF "instance_index" \notin DOMAIN other \/ "instance_index" \notin DOMAIN self
    THEN [raised |-> "AttributeError", val |-> FALSE]
    ELSE [raised |-> "", val |-> other.instance_index = self.instance_index]

\* The object with the reference r.
Obj(m, r) == m.heap[r + 1]

SetObj(m, r, obj) == [m EXCEPT !.heap[r + 1] = obj]

\* ------------------------------------------------------------- ink.py

Brush ==
    [cls |-> "Brush", id |-> <<>>, parent |-> NullRef]

Timestamp(id) ==
    [cls |-> "Timestamp", id |-> id, parent |-> NullRef,
     time |-> NoNumber]

Context ==
    [cls |-> "Context", id |-> <<>>, parent |-> NullRef,
     ink_source |-> NullRef, trace_format |-> NullRef, brush |-> NullRef,
     timestamp |-> NullRef]

TraceFormat ==
    [cls |-> "TraceFormat", instance_index |-> NullRef, id |-> <<>>,
     regular_channels |-> <<>>, intermittent_channels |-> <<>>]

InkSource(id, trace_format) ==
    [cls |-> "InkSource", instance_index |-> NullRef, id |-> id,
     trace_format |-> trace_format]

Channel(name) == [name |-> name, type |-> "decimal"]

\* ---- Accountable.__init__, in this thread and in another

\* Accountable.__init__ in the other thread, line 84: the class counter is
\* read and becomes the instance_index of the new entity.
other_line_84(m) ==
    [m EXCEPT !.other.pc = "line_85",
              !.other.todo = @ - 1,
              !.other.made = Append(@, [TraceFormat EXCEPT
                                          !.instance_index = m.next_instance_index])]

\* line 85, Accountable._next_instance_index_ += 1: the counter is read ...
other_line_85_load(m) ==
    [m EXCEPT !.other.pc = "line_85_store", !.other.loaded = m.next_instance_index]

\* ... and the value read, plus one, is written back.
other_line_85_store(m) ==
    [m EXCEPT !.next_instance_index = m.other.loaded + 1, !.other.pc = "idle"]

\* The next step of the other thread, where it has one.
other_step(m) ==
    IF m.other.pc = "idle" /\ m.other.todo > 0 THEN other_line_84(m)
    ELSE IF m.other.pc = "line_85" THEN other_line_85_load(m)
    ELSE IF m.other.pc = "line_85_store" THEN other_line_85_store(m)
    ELSE m

RECURSIVE other_steps(_, _)
other_steps(m, n) == IF n = 0 THEN m ELSE other_steps(other_step(m), n - 1)

\* A point at which the threads may be switched: the other thread takes the
\* steps that the schedule gives it here.
interleaved(m) ==
    IF m.schedule = <<>> THEN m
    ELSE other_steps([m EXCEPT !.schedule = Tail(@)], Head(m.schedule))

\* Accountable.__init__(self) in this thread: the object takes the class
\* counter Accountable._next_instance_index_ (line 84), then the counter is
\* read and the value read, plus one, is written back (line 85).  The other
\* thread may run before each of the three.
Accountable(m, self) ==
    LET line_84 == interleaved(m)
        line_85_load ==
            interleaved([line_84 EXCEPT
                           !.heap = Append(@, [self EXCEPT
                                                 !.instance_index =
                                                     line_84.next_instance_index])])
        line_85_store == interleaved(line_85_load)
    IN  [line_85_store EXCEPT !.next_instance_index = line_85_load.next_instance_index + 1]

\* A new object.  The __init__ of TraceFormat and of InkSource calls
\* super().__init__(), which is Accountable.__init__.  Brush, Context and
\* Timestamp derive from IHeritable first and call
\* super().__init__(id, parent), which is IHeritable.__init__ and calls no
\* further __init__: these objects have no attribute instance_index.
alloc(m, obj) ==
    IF "instance_index" \in DOMAIN obj THEN Accountable(m, obj)
    ELSE [m EXCEPT !.heap = Append(@, obj)]

\* ---------------------------------------------------- reading_types.py

BrushEnvelope(brush) == [brush |-> brush, parent_ref |-> <<>>]

TimestampEnvelope(timestamp) == [timestamp |-> timestamp, parent_ref |-> <<>>]

\* The *_or_ref fields are Union[object, str]: [is |-> "str", s |-> ...] is
\* the str, any other tag the object (isinstance tells them apart).
Str(s) == [is |-> "str", s |-> s]

ContextEnvelope(context) ==
    [context |-> context, parent_ref |-> <<>>,
     ink_source_or_ref |-> Str(<<>>), trace_format_or_ref |-> Str(<<>>),
     brush_or_ref |-> Str(<<>>), timestamp_or_ref |-> Str(<<>>)]

\* The id property of an envelope.
brush_id(m, env) == Obj(m, env.brush).id

timestamp_id(m, env) == Obj(m, env.timestamp).id

context_id(m, env) == Obj(m, env.context).id

\* What a reader method returns: the machine it leaves, and its value (ok is
\* FALSE where the method returns None).
Ret(m, val) == [m |-> m, ok |-> TRUE, val |-> val]

RetNone(m) == [m |-> m, ok |-> FALSE, val |-> None]

\* ------------------------------------------------- Reader: element readers

read_channel(m, e) ==
    IF ~has(e, "name")
    THEN RetNone(warning(m, "Attribute \"name\" is required for channel element"))
    ELSE LET type == IF has(e, "type")
                        /\ get(e, "type") \in {"integer", "decimal", "double", "boolean"}
                     THEN get(e, "type")
                     ELSE "decimal"
         IN  Ret(m, [Channel(get(e, "name")) EXCEPT !.type = type])

\* if id is not None and len(id) > 0: obj.id = id
set_id(m, r, id) ==
    IF id # None /\ Len(id) > 0 THEN SetObj(m, r, [Obj(m, r) EXCEPT !.id = id]) ELSE m

\* if channel is not None: channels.append(channel)
append_channel(r, channels) ==
    Ret(r.m, IF r.ok THEN Append(channels, r.val) ELSE channels)

\* for channel_element in channel_elements: ... append(channel); acc is what
\* the loop has done so far, the machine and the list.
RECURSIVE read_channels(_, _)
read_channels(acc, es) ==
    IF es = <<>> THEN acc
    ELSE read_channels(append_channel(read_channel(acc.m, Head(es)), acc.val), Tail(es))

\* lines 279-287, reg being the regular channels read
read_intermittent_channels(reg, e, tf) ==
    IF found(e, "intermittentChannels")
    THEN read_channels(
             Ret(SetObj(reg.m, tf, [Obj(reg.m, tf) EXCEPT !.regular_channels = reg.val]),
                 <<>>),
             findall(find(e, "intermittentChannels"), "channel"))
    ELSE Ret(SetObj(reg.m, tf, [Obj(reg.m, tf) EXCEPT !.regular_channels = reg.val]), <<>>)

\* return trace_format
return_trace_format(im, tf) ==
    Ret(SetObj(im.m, tf, [Obj(im.m, tf) EXCEPT !.intermittent_channels = im.val]), tf)

read_trace_format(m, e) ==
    return_trace_format(
        read_intermittent_channels(
            read_channels(Ret(set_id(alloc(m, TraceFormat), next_ref(m),
                                     get_id(e)),
                              <<>>),
                          findall(e, "channel")),
            e, next_ref(m)),
        next_ref(m))

\* Reader.get_inner_text(element)
RECURSIVE get_inner_text(_)
RECURSIVE inner_texts(_)
inner_texts(es) == IF es = <<>> THEN <<>> ELSE get_inner_text(Head(es)) \o inner_texts(Tail(es))

get_inner_text(element) ==
    (IF element.text = NoText THEN <<>> ELSE element.text)
    \o inner_texts(element.children)
    \o (IF element.tail = NoText THEN <<>> ELSE element.tail)

\* Reader.read_annotation(element): the content type of the annotation; ok
\* is FALSE where it returns None.
read_annotation(m, element) ==
    IF element.tag = "annotation" THEN Ret(m, "Text")
    ELSE IF element.tag = "annotationXML"
    THEN IF Len(get_inner_text(element)) > 0 THEN Ret(m, "XML")
         ELSE IF has(element, "href") THEN Ret(m, "HRef")
         ELSE RetNone(warning(m, "Neither content, nor href is provided for annotationXML element"))
    ELSE RetNone(raise(m, "Exception"))

\* Reader.read_annotations(container), over the children from the first of
\* `items` on
RECURSIVE read_annotations(_, _)
read_annotations(m, items) ==
    IF items = <<>> THEN m
    ELSE IF Head(items).tag \in {"annotation", "annotationXML"}
    THEN read_annotations(read_annotation(m, Head(items)).m, Tail(items))
    ELSE read_annotations(m, Tail(items))

\* sampleRate and latency: a required decimal 'value' attribute.
read_sample_rate(m, e) ==
    IF ~found(e, "sampleRate") THEN m
    ELSE IF ~has(find(e, "sampleRate"), "value")
    THEN warning(m, "Attribute \"value\" is required for sampleRate element")
    ELSE IF ~is_float(get(find(e, "sampleRate"), "value"))
    THEN warning(m, "Attribute \"value\" of sampleRate element is expected to be decimal")
    ELSE m

read_latency(m, e) ==
    IF ~found(e, "latency") THEN m
    ELSE IF ~has(find(e, "latency"), "value")
    THEN warning(m, "Attribute \"value\" is required for latency element")
    ELSE IF ~is_float(get(find(e, "latency"), "value"))
    THEN warning(m, "Attribute \"value\" of latency is expected to be decimal")
    ELSE m

\* Reader.read_active_area, for element.find('inkml:activeArea')
read_active_area(m, e) ==
    IF ~found(e, "activeArea") THEN m
    ELSE IF ~has(find(e, "activeArea"), "width")
    THEN warning(m, "Attribute \"width\" is required for activeArea element")
    ELSE IF ~is_float(get(find(e, "activeArea"), "width"))
    THEN warning(m, "Attribute \"width\" of activeArea is expected to be decimal")
    ELSE IF ~has(find(e, "activeArea"), "height")
    THEN warning(m, "Attribute \"height\" is required for activeArea element")
    ELSE IF ~is_float(get(find(e, "activeArea"), "height"))
    THEN warning(m, "Attribute \"height\" of activeArea is expected to be decimal")
    ELSE m

read_source_property(m, e) ==
    IF ~has(e, "name")
    THEN warning(m, "Attribute \"name\" is required for sourceProperty element")
    ELSE IF ~has(e, "value")
    THEN warning(m, "Attribute \"value\" is required for sourceProperty element")
    ELSE m

\* lines 193-197
RECURSIVE read_source_properties(_, _)
read_source_properties(m, es) ==
    IF es = <<>> THEN m
    ELSE read_source_properties(read_source_property(m, Head(es)), Tail(es))

read_channel_property(m, e) ==
    IF ~has(e, "channel")
    THEN warning(m, "Attribute \"channel\" is required for channelProperty element")
    ELSE IF ~has(e, "name")
    THEN warning(m, "Attribute \"name\" is required for channelProperty element")
    ELSE IF ~has(e, "value")
    THEN warning(m, "Attribute \"value\" is required for channelProperty element")
    ELSE m

RECURSIVE read_channel_properties(_, _)
read_channel_properties(m, es) ==
    IF es = <<>> THEN m
    ELSE read_channel_properties(read_channel_property(m, Head(es)), Tail(es))

\* lines 200-210: channel_properties_element.find(...) is None when the
\* wrapper holds no channelProperty, and the for loop over None raises
\* TypeError; otherwise the loop runs over the children of the first
\* channelProperty.
read_ink_source_channel_properties(m, e) ==
    IF ~found(e, "channelProperties") THEN m
    ELSE IF ~found(find(e, "channelProperties"), "channelProperty")
    THEN raise(m, "TypeError")
    ELSE read_channel_properties(
             m, find(find(e, "channelProperties"), "channelProperty").children)

\* lines 185-226, tf being what read_trace_format returned
new_ink_source(tf, e) ==
    Ret(read_ink_source_channel_properties(
            read_source_properties(
                read_active_area(
                    read_latency(
                        read_sample_rate(alloc(tf.m, InkSource(get_id(e), tf.val)), e), e),
                    e),
                findall(e, "sourceProperty")),
            e),
        next_ref(tf.m))

read_ink_source(m, e) ==
    IF get_id(e) = None
    THEN RetNone(warning(m, "Attribute \"xml:id\" is required for inkSource element"))
    ELSE IF ~found(e, "traceFormat")
    THEN RetNone(warning(m, "Nested traceFormat element is required for inkSource elements"))
    ELSE new_ink_source(read_trace_format(m, find(e, "traceFormat")), e)

read_brush_property(m, e) ==
    IF ~has(e, "name")
    THEN warning(m, "Attribute \"name\" is required for brushProperty element")
    ELSE IF ~has(e, "value")
    THEN warning(m, "Attribute \"value\" is required for brushProperty element")
    ELSE read_annotations(m, e.children)

\* lines 246-252
RECURSIVE read_brush_properties(_, _)
read_brush_properties(m, es) ==
    IF es = <<>> THEN m
    ELSE read_brush_properties(read_brush_property(m, Head(es)), Tail(es))

read_brush(m, e) ==
    Ret(read_annotations(
            read_brush_properties(set_id(alloc(m, Brush), next_ref(m), get_id(e)),
                                  findall(e, "brushProperty")),
            e.children),
        IF has(e, "brushRef") /\ Len(get(e, "brushRef")) > 0
        THEN [BrushEnvelope(next_ref(m)) EXCEPT !.parent_ref = get(e, "brushRef")]
        ELSE BrushEnvelope(next_ref(m)))

\* lines 380-409, m holding the new Timestamp t
read_timestamp_attributes(m, e, t) ==
    IF has(e, "time") /\ is_float(get(e, "time"))
    THEN Ret(SetObj(m, t, [Obj(m, t) EXCEPT !.time = float_number(get(e, "time"))]),
             TimestampEnvelope(t))
    ELSE IF has(e, "timeString")
    THEN Ret(m, TimestampEnvelope(t))
    ELSE Ret(m, IF has(e, "timestampRef")
                THEN [TimestampEnvelope(t) EXCEPT !.parent_ref = get(e, "timestampRef")]
                ELSE TimestampEnvelope(t))

read_timestamp(m, e) ==
    IF get_id(e) = None
    THEN RetNone(warning(m, "Attribute \"xml:id\" is required for parent element"))
    ELSE read_timestamp_attributes(alloc(m, Timestamp(get_id(e))), e,
                                   next_ref(m))

\* element.get(name) where it is a non-empty str, '' otherwise
attr(e, name) == IF has(e, name) /\ Len(get(e, name)) > 0 THEN get(e, name) ELSE <<>>

\* envelope.<field> = <what a nested reader returned>, unless it returned None
set_nested(env, field, is, r) ==
    Ret(r.m, IF r.ok THEN [env EXCEPT ![field] = [is |-> is, ref |-> r.val]] ELSE env)

\* lines 449-451 ; acc is the machine and the envelope so far
read_context_trace_format(acc, e) ==
    IF found(e, "traceFormat")
    THEN set_nested(acc.val, "trace_format_or_ref", "TraceFormat",
                    read_trace_format(acc.m, find(e, "traceFormat")))
    ELSE acc

\* lines 454-458
read_context_ink_source(acc, e) ==
    IF found(e, "inkSource")
    THEN set_nested(acc.val, "ink_source_or_ref", "InkSource",
                    read_ink_source(acc.m, find(e, "inkSource")))
    ELSE acc

\* lines 461-463
read_context_brush(acc, e) ==
    IF found(e, "brush") /\ acc.m.raised = ""
    THEN set_nested(acc.val, "brush_or_ref", "BrushEnvelope",
                    read_brush(acc.m, find(e, "brush")))
    ELSE acc

\* lines 466-470
read_context_timestamp(acc, e) ==
    IF found(e, "timestamp") /\ acc.m.raised = ""
    THEN set_nested(acc.val, "timestamp_or_ref", "TimestampEnvelope",
                    read_timestamp(acc.m, find(e, "timestamp")))
    ELSE acc

\* lines 416-446
read_context_attributes(m, e) ==
    Ret(set_id(alloc(m, Context), next_ref(m), get_id(e)),
        [ContextEnvelope(next_ref(m)) EXCEPT
           !.parent_ref = attr(e, "contextRef"),
           !.trace_format_or_ref = Str(attr(e, "traceFormatRef")),
           !.ink_source_or_ref = Str(attr(e, "inkSourceRef")),
           !.brush_or_ref = Str(attr(e, "brushRef")),
           !.timestamp_or_ref = Str(attr(e, "timestampRef"))])

\* Nested children are read after the attributes and overwrite them.
read_context(m, e) ==
    read_context_timestamp(
        read_context_brush(
            read_context_ink_source(
                read_context_trace_format(read_context_attributes(m, e), e), e), e), e)

\* ------------------------------------------------- Reader.tokenize_expr
\* The regular expression of Reader.__init__,
\*   ((?:[!'"]?\s*-?\s*(?:(?:\d+(?:\.\d*)?|(\.\d+))([eE][+-]?\d)?)|(#[\dA-F]+))|[TF*?])
\* and its findall.  A position is an index into the str (from 1); the end of
\* a match is the position after it, 0 where there is no match.  The classes
\* of characters that follow each other in the expression are disjoint, so
\* the greedy match is the only one.

\* content.split(sep)
RECURSIVE split(_, _)
split(s, sep) ==
    IF position(s, {sep}, 1) > Len(s) THEN <<s>>
    ELSE <<SubSeq(s, 1, position(s, {sep}, 1) - 1)>>
         \o split(SubSeq(s, position(s, {sep}, 1) + 1, Len(s)), sep)

\* class* at i : the position after the characters of the class
RECURSIVE many(_, _, _)
many(s, i, class) ==
    IF i <= Len(s) /\ s[i] \in class THEN many(s, i + 1, class) ELSE i

\* class? at i
optional(s, i, class) == IF i <= Len(s) /\ s[i] \in class THEN i + 1 ELSE i

\* \.\d+ at i
fraction_end(s, i) ==
    IF i <= Len(s) /\ s[i] = "." /\ many(s, i + 1, Digits) > i + 1
    THEN many(s, i + 1, Digits)
    ELSE 0

\* \d+(?:\.\d*)?|(\.\d+) at i, d being the position after the digits at i
mantissa_end(s, i, d) ==
    IF d > i
    THEN IF d <= Len(s) /\ s[d] = "." THEN many(s, d + 1, Digits) ELSE d
    ELSE fraction_end(s, i)

\* ([eE][+-]?\d)? at j, k being the position after [eE][+-]?
exponent_digit_end(s, j, k) ==
    IF k <= Len(s) /\ s[k] \in Digits THEN k + 1 ELSE j

\* ([eE][+-]?\d)? after a mantissa that ends at j
exponent_end(s, j) ==
    IF j = 0 THEN 0
    ELSE IF j <= Len(s) /\ s[j] \in {"e", "E"}
    THEN exponent_digit_end(s, j, optional(s, j + 1, {"+", "-"}))
    ELSE j

number_end(s, i) == exponent_end(s, mantissa_end(s, i, many(s, i, Digits)))

\* [!'"]?\s*-?\s* and the number, at i
prefixed_number_end(s, i) ==
    number_end(s, many(s, optional(s, many(s, optional(s, i, {"!", "'", "\""}),
                                                Whitespace),
                                      {"-"}),
                          Whitespace))

\* (#[\dA-F]+) at i
hex_end(s, i) ==
    IF s[i] = "#" /\ many(s, i + 1, Range(HexDigits)) > i + 1
    THEN many(s, i + 1, Range(HexDigits))
    ELSE 0

\* [TF*?] at i
letter_end(s, i) == IF s[i] \in {"T", "F", "*", "?"} THEN i + 1 ELSE 0

\* The first of the alternatives that matches.
first_match(number, hex, letter) ==
    IF number # 0 THEN number ELSE IF hex # 0 THEN hex ELSE letter

match_end(s, i) ==
    first_match(prefixed_number_end(s, i), hex_end(s, i), letter_end(s, i))

\* [m[0] for m in self.tokenize_expr.findall(point)], from position i on;
\* e is the end of the match at i.
RECURSIVE findall_from(_, _)
RECURSIVE next_token(_, _, _)
next_token(s, i, e) ==
    IF e = 0 THEN findall_from(s, i + 1)
    ELSE <<SubSeq(s, i, e - 1)>> \o findall_from(s, e)

findall_from(s, i) == IF i > Len(s) THEN <<>> ELSE next_token(s, i, match_end(s, i))

tokenize_expr(point) == findall_from(point, 1)

\* ------------------------------------------- Reader.parse_trace_content

RegularChannel(name, type) ==
    [name |-> name, type |-> type, values |-> <<>>,
     difference_order |-> "Explicit", last_difference |-> NaN]

IntermittentChannel(name, type) ==
    [name |-> name, type |-> type, index_values |-> <<>>]

IndexValue(index, value) == [index |-> index, value |-> value]

Last(s) == s[Len(s)]

\* value = int(token[1:], 16) if token[0] == '#' else float(token), negated
\* where the sign was taken off before: [ok, raised, v].
signed_number(is_negative, num) ==
    [ok |-> num.ok, raised |-> FALSE, v |-> IF is_negative THEN 0 - num.v ELSE num.v]

number_of(is_negative, t) ==
    IF t = <<>> THEN [ok |-> FALSE, raised |-> TRUE, v |-> 0]
    ELSE signed_number(is_negative, IF t[1] = "#" THEN int16(Tail(t)) ELSE float(t))

\* The sign and the number of a token whose marker is gone: [ok, raised, v].
\* token[0] of an empty str raises IndexError; a str that is no number gives
\* ValueError, which the caller catches (ok FALSE).
parse_number(token) ==
    IF token = <<>> THEN [ok |-> FALSE, raised |-> TRUE, v |-> 0]
    ELSE number_of(token[1] = "-", IF token[1] = "-" THEN strip(Tail(token)) ELSE token)

\* value = round(value) on an integer channel
integer(channel, v) == IF channel.type = "integer" THEN round(v) ELSE v

\* A variant that does not look at the prefix.
difference_order_kept(channel, token) == channel.difference_order

\* A variant that takes a token without prefix for an explicit value.
difference_order_marked(channel, token) ==
    CASE token[1] = "'" -> "Difference"
      [] token[1] = "\"" -> "SecondDifference"
      [] OTHER -> "Explicit"

\* The prefix of a token: its difference order.
difference_order_of(channel, token) ==
    CASE token[1] = "!" -> "Explicit"
      [] token[1] = "'" -> "Difference"
      [] token[1] = "\"" -> "SecondDifference"
      [] OTHER -> channel.difference_order

\* A variant in which an explicit value leaves last_difference as it is.
decode_value_unreset(channel, difference_order, num) ==
    IF num.raised THEN [st |-> "raise", ch |-> channel]
    ELSE IF ~num.ok THEN [st |-> "fail", ch |-> channel]
    ELSE IF difference_order = "Explicit"
    THEN [st |-> "ok",
          ch |-> [channel EXCEPT !.values = Append(@, integer(channel, num.v)),
                                 !.difference_order = difference_order]]
    ELSE IF difference_order = "Difference"
    THEN IF Len(channel.values) = 0 THEN [st |-> "fail", ch |-> channel]
         ELSE [st |-> "ok",
               ch |-> [channel EXCEPT
                         !.values = Append(@, integer(channel,
                                                      Last(channel.values) + num.v)),
                         !.last_difference = Finite(num.v),
                         !.difference_order = difference_order]]
    ELSE IF isnan(channel.last_difference) THEN [st |-> "fail", ch |-> channel]
         ELSE [st |-> "ok",
               ch |-> [channel EXCEPT
                         !.values = Append(@, integer(channel,
                                                      Last(channel.values)
                                                      + channel.last_difference.v + num.v)),
                         !.last_difference = Finite(channel.last_difference.v + num.v),
                         !.difference_order = difference_order]]

\* A variant in which a second difference leaves last_difference as it is.
decode_value_flat(channel, difference_order, num) ==
    IF num.raised THEN [st |-> "raise", ch |-> channel]
    ELSE IF ~num.ok THEN [st |-> "fail", ch |-> channel]
    ELSE IF difference_order = "Explicit"
    THEN [st |-> "ok",
          ch |-> [channel EXCEPT !.values = Append(@, integer(channel, num.v)),
                                 !.last_difference = NaN,
                                 !.difference_order = difference_order]]
    ELSE IF difference_order = "Difference"
    THEN IF Len(channel.values) = 0 THEN [st |-> "fail", ch |-> channel]
         ELSE [st |-> "ok",
               ch |-> [channel EXCEPT
                         !.values = Append(@, integer(channel,
                                                      Last(channel.values) + num.v)),
                         !.last_difference = Finite(num.v),
                         !.difference_order = difference_order]]
    ELSE IF isnan(channel.last_difference) THEN [st |-> "fail", ch |-> channel]
         ELSE [st |-> "ok",
               ch |-> [channel EXCEPT
                         !.values = Append(@, integer(channel,
                                                      Last(channel.values)
                                                      + channel.last_difference.v + num.v)),
                         !.difference_order = difference_order]]

\* lines 1040-1085: the number num of a regular channel, read under the
\* difference order given.
decode_value(channel, difference_order, num) ==
    IF num.raised THEN [st |-> "raise", ch |-> channel]
    ELSE IF ~num.ok THEN [st |-> "fail", ch |-> channel]
    ELSE IF difference_order = "Explicit"
    THEN [st |-> "ok",
          ch |-> [channel EXCEPT !.values = Append(@, integer(channel, num.v)),
                                 !.last_difference = NaN,
                                 !.difference_order = difference_order]]
    ELSE IF difference_order = "Difference"
    THEN IF Len(channel.values) = 0 THEN [st |-> "fail", ch |-> channel]
         ELSE [st |-> "ok",
               ch |-> [channel EXCEPT
                         !.values = Append(@, integer(channel,
                                                      Last(channel.values) + num.v)),
                         !.last_difference = Finite(num.v),
                         !.difference_order = difference_order]]
    ELSE IF isnan(channel.last_difference) THEN [st |-> "fail", ch |-> channel]
         ELSE [st |-> "ok",
               ch |-> [channel EXCEPT
                         !.values = Append(@, integer(channel,
                                                      Last(channel.values)
                                                      + channel.last_difference.v + num.v)),
                         !.last_difference = Finite(channel.last_difference.v + num.v),
                         !.difference_order = difference_order]]

\* A variant in which a wildcard makes the channel explicit again.
decode_regular_wildcard_resets(channel, token) ==
    IF token = <<"*">>
    THEN IF Len(channel.values) > 0
         THEN [st |-> "ok",
               ch |-> [channel EXCEPT !.values = Append(@, Last(channel.values)),
                                      !.last_difference = NaN,
                                      !.difference_order = "Explicit"]]
         ELSE [st |-> "fail", ch |-> channel]
    ELSE IF channel.type = "boolean"
    THEN IF token = <<"T">>
         THEN [st |-> "ok", ch |-> [channel EXCEPT !.values = Append(@, 2)]]
         ELSE IF token = <<"F">>
         THEN [st |-> "ok", ch |-> [channel EXCEPT !.values = Append(@, 0)]]
         ELSE [st |-> "fail", ch |-> channel]
    ELSE IF token = <<>> THEN [st |-> "raise", ch |-> channel]
    ELSE decode_value(channel, difference_order_of(channel, token),
                      parse_number(strip(IF token[1] \in {"!", "'", "\""}
                                         THEN Tail(token) ELSE token)))

\* One token of a regular channel (lines 1000-1085): [st, ch] with st "ok",
\* "fail" (the decoder warns and returns None, None) or "raise".
decode_regular(channel, token) ==
    IF token = <<"*">>
    THEN IF Len(channel.values) > 0
         THEN [st |-> "ok",
               ch |-> [channel EXCEPT !.values = Append(@, Last(channel.values))]]
         ELSE [st |-> "fail", ch |-> channel]
    ELSE IF channel.type = "boolean"
    THEN IF token = <<"T">>
         THEN [st |-> "ok", ch |-> [channel EXCEPT !.values = Append(@, 2)]]
         ELSE IF token = <<"F">>
         THEN [st |-> "ok", ch |-> [channel EXCEPT !.values = Append(@, 0)]]
         ELSE [st |-> "fail", ch |-> channel]
    ELSE IF token = <<>> THEN [st |-> "raise", ch |-> channel]
    ELSE decode_value(channel, difference_order_of(channel, token),
                      parse_number(strip(IF token[1] \in {"!", "'", "\""}
                                         THEN Tail(token) ELSE token)))

\* A variant that counts the points from 1.
add_index_value_from_one(channel, i, v) ==
    [st |-> "ok",
     ch |-> [channel EXCEPT !.index_values = Append(@, IndexValue(i + 1, v))]]

\* channel.index_values.append(IndexValue(i, value))
add_index_value(channel, i, v) ==
    [st |-> "ok", ch |-> [channel EXCEPT !.index_values = Append(@, IndexValue(i, v))]]

\* lines 1117-1136: the number num of an intermittent channel
decode_intermittent_value(channel, i, num) ==
    IF num.raised THEN [st |-> "raise", ch |-> channel]
    ELSE IF ~num.ok THEN [st |-> "fail", ch |-> channel]
    ELSE add_index_value(channel, i, integer(channel, num.v))

\* A variant in which the placeholder repeats the last entry.
decode_intermittent_placeholder_repeats(channel, token, i) ==
    IF token \in {<<"?">>, <<"*">>}
    THEN IF Len(channel.index_values) > 0
         THEN add_index_value(channel, i, Last(channel.index_values).value)
         ELSE [st |-> IF token = <<"?">> THEN "ok" ELSE "fail", ch |-> channel]
    ELSE IF channel.type = "boolean"
    THEN IF token = <<"T">> THEN add_index_value(channel, i, 2)
         ELSE IF token = <<"F">> THEN add_index_value(channel, i, 0)
         ELSE [st |-> "fail", ch |-> channel]
    ELSE decode_intermittent_value(channel, i, parse_number(token))

\* One token of an intermittent channel at point i (lines 1092-1136).
decode_intermittent(channel, token, i) ==
    IF token = <<"?">> THEN [st |-> "ok", ch |-> channel]
    ELSE IF token = <<"*">>
    THEN IF Len(channel.index_values) > 0
         THEN add_index_value(channel, i, Last(channel.index_values).value)
         ELSE [st |-> "fail", ch |-> channel]
    ELSE IF channel.type = "boolean"
    THEN IF token = <<"T">> THEN add_index_value(channel, i, 2)
         ELSE IF token = <<"F">> THEN add_index_value(channel, i, 0)
         ELSE [st |-> "fail", ch |-> channel]
    ELSE decode_intermittent_value(channel, i, parse_number(token))

\* What a point has come to: st is "ok", "fail" or "raise", msg the warning
\* of a failed point.
Point(st, msg, regular_channels, intermittent_channels) ==
    [st |-> st, msg |-> msg, regular |-> regular_channels,
     intermittent |-> intermittent_channels]

\* The outcome r of one token is taken into the point p: channel j of the
\* list named by field is replaced, or the point fails with msg.
take(p, field, j, r, msg) ==
    IF r.st = "ok" THEN [p EXCEPT ![field][j] = r.ch]
    ELSE [p EXCEPT !.st = r.st, !.msg = IF r.st = "fail" THEN msg ELSE ""]

\* for j in range(num_regular_channels): the channels from j on (1-based).
RECURSIVE regular_loop(_, _, _)
regular_loop(p, tokens, j) ==
    IF p.st # "ok" \/ j > Len(p.regular) THEN p
    ELSE regular_loop(take(p, "regular", j, decode_regular(p.regular[j], tokens[j]),
                           "Unexpected value in channel (regular)"),
                      tokens, j + 1)

\* for j in range(num_regular_channels, num_channels): tokens[j] raises
\* IndexError when the point has fewer tokens than there are channels.
RECURSIVE intermittent_loop(_, _, _, _)
intermittent_loop(p, tokens, j, i) ==
    IF p.st # "ok" \/ j > Len(p.intermittent) THEN p
    ELSE IF Len(p.regular) + j > Len(tokens)
    THEN [p EXCEPT !.st = "raise"]
    ELSE intermittent_loop(
             take(p, "intermittent", j,
                  decode_intermittent(p.intermittent[j], tokens[Len(p.regular) + j], i),
                  "Unexpected value in channel (intermittent)"),
             tokens, j + 1, i)

\* One point (one iteration of the loop of line 983), p being the channels
\* as the points before left them.
parse_point(p, tokens, i) ==
    IF Len(tokens) < Len(p.regular)
       \/ Len(tokens) > Len(p.regular) + Len(p.intermittent)
    THEN [p EXCEPT !.st = "fail",
                   !.msg = "Expected between {} and {} values for a point, but got {}"]
    ELSE intermittent_loop(regular_loop(p, tokens, 1), tokens, 1, i)

\* for i, point in enumerate(points), from point i on (0-based, as in the code).
RECURSIVE points_loop(_, _, _)
points_loop(p, points, i) ==
    IF p.st # "ok" \/ i >= Len(points) THEN p
    ELSE points_loop(parse_point(p, tokenize_expr(strip(points[i + 1])), i),
                     points, i + 1)

\* [RegularChannel(ch.name, ch.type) for ch in trace_format.regular_channels]
RECURSIVE regular_channels_of(_)
regular_channels_of(channels) ==
    IF channels = <<>> THEN <<>>
    ELSE <<RegularChannel(Head(channels).name, Head(channels).type)>>
         \o regular_channels_of(Tail(channels))

\* [IntermittentChannel(ch.name, ch.type)
\*  for ch in trace_format.intermittent_channels]
RECURSIVE intermittent_channels_of(_)
intermittent_channels_of(channels) ==
    IF channels = <<>> THEN <<>>
    ELSE <<IntermittentChannel(Head(channels).name, Head(channels).type)>>
         \o intermittent_channels_of(Tail(channels))

\* return regular_channels, intermittent_channels ; return None, None after
\* a warning ; or the exception
return_channels(m, p) ==
    [m |-> IF p.st = "fail" THEN warning(m, p.msg)
           ELSE IF p.st = "raise" THEN raise(m, "IndexError")
           ELSE m,
     st |-> p.st, regular |-> p.regular, intermittent |-> p.intermittent]

\* parse_trace_content(content, trace_format): st is "ok" (the two channel
\* lists are returned), "fail" (None, None, after a warning) or "raise".
parse_trace_content(m, content, trace_format) ==
    return_channels(
        m,
        points_loop(
            Point("ok", "",
                  regular_channels_of(trace_format.regular_channels),
                  intermittent_channels_of(trace_format.intermittent_channels)),
            split(content, ","), 0))

\* ---------------------------------------------------- traces (ink.py)
\* Trace, TraceGroup and TraceView objects live in a second heap, m.theap; a
\* reference to one is its position there.

Trace ==
    [cls |-> "Trace", id |-> <<>>, channels |-> EmptyDict,
     intermittent_channels |-> EmptyDict, continuation |-> "No", next |-> NullRef,
     context |-> NullRef, brush |-> NullRef, duration |-> NoNumber,
     time_offset |-> NoNumber,
     type |-> "penDown"]

TraceGroup ==
    [cls |-> "TraceGroup", id |-> <<>>, context |-> NullRef, brush |-> NullRef,
     traces |-> <<>>]

TraceView(trace_data) ==
    [cls |-> "TraceView", id |-> <<>>, ID |-> None, trace_data |-> trace_data,
     begin |-> <<>>, end |-> <<>>]

talloc(m, obj) == [m EXCEPT !.theap = Append(@, obj)]

next_trace_ref(m) == Len(m.theap) + 1

TObj(m, r) == m.theap[r]

\* get_default_trace_format
get_default_trace_format(m) ==
    Ret(SetObj(alloc(m, TraceFormat), next_ref(m),
               [Obj(alloc(m, TraceFormat), next_ref(m)) EXCEPT
                  !.id = <<"D", "e", "f", "a", "u", "l", "t", "T", "r", "a",
                           "c", "e", "F", "o", "r", "m", "a", "t">>,
                  !.regular_channels = <<Channel(<<"X">>), Channel(<<"Y">>)>>]),
        next_ref(m))

\* while ctx is not None: if ctx.trace_format is not None: return it
\* (fuel bounds the walk; a parent chain is never longer than the heap).
RECURSIVE walk_trace_format(_, _, _)
walk_trace_format(m, ctx, fuel) ==
    IF ctx = NullRef \/ fuel = 0 THEN NullRef
    ELSE IF Obj(m, ctx).trace_format # NullRef THEN Obj(m, ctx).trace_format
    ELSE walk_trace_format(m, Obj(m, ctx).parent, fuel - 1)

\* while ctx is not None: if ctx.ink_source is not None: return its trace_format
RECURSIVE walk_ink_source(_, _, _)
walk_ink_source(m, ctx, fuel) ==
    IF ctx = NullRef \/ fuel = 0 THEN NullRef
    ELSE IF Obj(m, ctx).ink_source # NullRef
    THEN Obj(m, Obj(m, ctx).ink_source).trace_format
    ELSE walk_ink_source(m, Obj(m, ctx).parent, fuel - 1)

\* A variant that looks for an ink source before it looks for a trace format.
get_trace_format_source_first(m, trace, external_context) ==
    LET context == IF trace.context # NullRef THEN trace.context ELSE external_context
    IN  IF context = NullRef THEN get_default_trace_format(m)
        ELSE IF walk_ink_source(m, context, Len(m.heap)) # NullRef
        THEN Ret(m, walk_ink_source(m, context, Len(m.heap)))
        ELSE IF walk_trace_format(m, context, Len(m.heap)) # NullRef
        THEN Ret(m, walk_trace_format(m, context, Len(m.heap)))
        ELSE get_default_trace_format(m)

\* Reader.get_trace_format(trace, external_context)
get_trace_format(m, trace, external_context) ==
    LET context == IF trace.context # NullRef THEN trace.context ELSE external_context
    IN  IF context = NullRef THEN get_default_trace_format(m)
        ELSE IF walk_trace_format(m, context, Len(m.heap)) # NullRef
        THEN Ret(m, walk_trace_format(m, context, Len(m.heap)))
        ELSE IF walk_ink_source(m, context, Len(m.heap)) # NullRef
        THEN Ret(m, walk_ink_source(m, context, Len(m.heap)))
        ELSE get_default_trace_format(m)

SetT(m, t, obj) == [m EXCEPT !.theap[t] = obj]

\* A contextRef / brushRef attribute of a trace or a traceGroup (lines
\* 862-888, 751-777).  r is the reader so far: the machine and the item being
\* read, or None once the reader has returned None.  The item takes the
\* object that the table entry holds in the field of the same name.
resolve_ref(r, e, name, table, field, missing, require_refs) ==
    IF ~r.ok \/ ~has(e, name) THEN r
    ELSE IF is_local_id(get(e, name)) \/ r.m.assume_local_refs
    THEN IF Has(r.m.defs[table], to_local_id(get(e, name)))
         THEN Ret(SetT(r.m, r.val,
                       [TObj(r.m, r.val) EXCEPT
                          ![field] = Get(r.m.defs[table], to_local_id(get(e, name)))[field]]),
                  r.val)
         ELSE IF require_refs THEN RetNone(warning(r.m, missing))
              ELSE Ret(warning(r.m, missing), r.val)
    ELSE Ret(warning(r.m, "External references are not yet supported"), r.val)

\* lines 891-900: the continuation attribute of the trace t
set_continuation(m, element, t) ==
    IF ~has(element, "continuation") THEN m
    ELSE IF get(element, "continuation") = "begin"
    THEN SetT(m, t, [TObj(m, t) EXCEPT !.continuation = "Begin"])
    ELSE IF get(element, "continuation") = "middle"
    THEN SetT(m, t, [TObj(m, t) EXCEPT !.continuation = "Middle"])
    ELSE IF get(element, "continuation") = "end"
    THEN SetT(m, t, [TObj(m, t) EXCEPT !.continuation = "End"])
    ELSE warning(m, "Unexpected value of continuation attribute")

\* A variant that keeps a continuation trace whose prior is not found.
set_prior_kept(m, element, t, require_refs) ==
    IF TObj(m, t).continuation \notin {"Middle", "End"} THEN Ret(m, t)
    ELSE IF ~has(element, "priorRef") \/ Len(get(element, "priorRef")) = 0
    THEN RetNone(warning(m, "Attribute priorRef is required because continuation is set"))
    ELSE IF ~is_local_id(get(element, "priorRef")) /\ ~m.assume_local_refs
    THEN RetNone(warning(m, "External references are not yet supported"))
    ELSE IF Has(m.defs.traces, to_local_id(get(element, "priorRef")))
    THEN Ret(SetT(m, Get(m.defs.traces, to_local_id(get(element, "priorRef"))),
                  [TObj(m, Get(m.defs.traces, to_local_id(get(element, "priorRef"))))
                     EXCEPT !.next = t]),
             t)
    ELSE Ret(warning(m, "Could not find prior trace referenced by a trace"), t)

\* lines 903-921: the prior trace of the trace t
set_prior(m, element, t, require_refs) ==
    IF TObj(m, t).continuation \notin {"Middle", "End"} THEN Ret(m, t)
    ELSE IF ~has(element, "priorRef") \/ Len(get(element, "priorRef")) = 0
    THEN RetNone(warning(m, "Attribute priorRef is required because continuation is set"))
    ELSE IF ~is_local_id(get(element, "priorRef")) /\ ~m.assume_local_refs
    THEN RetNone(warning(m, "External references are not yet supported"))
    ELSE IF Has(m.defs.traces, to_local_id(get(element, "priorRef")))
    THEN Ret(SetT(m, Get(m.defs.traces, to_local_id(get(element, "priorRef"))),
                  [TObj(m, Get(m.defs.traces, to_local_id(get(element, "priorRef"))))
                     EXCEPT !.next = t]),
             t)
    ELSE IF require_refs
    THEN RetNone(warning(m, "Could not find prior trace referenced by a trace"))
    ELSE Ret(warning(m, "Could not find prior trace referenced by a trace"), t)

\* read_trace, lines 890-921
read_trace_continuation(r, element, require_refs) ==
    IF ~r.ok THEN r
    ELSE set_prior(set_continuation(r.m, element, r.val), element, r.val, require_refs)

\* for ch in channels: trace.channels[ch.name] = ch.values
RECURSIVE move_channels(_, _, _)
move_channels(d, channels, field) ==
    IF channels = <<>> THEN d
    ELSE move_channels(Put(d, Head(channels).name, Head(channels)[field]),
                       Tail(channels), field)

\* lines 927-935, p being what parse_trace_content returned
move_data(p, t) ==
    IF p.st = "raise" THEN RetNone(p.m)
    ELSE IF p.st = "fail"
    THEN RetNone(warning(p.m, "Could not parse trace content"))
    ELSE Ret(SetT(p.m, t,
                  [TObj(p.m, t) EXCEPT
                     !.channels = move_channels(@, p.regular, "values"),
                     !.intermittent_channels =
                         move_channels(@, p.intermittent, "index_values")]),
             t)

\* line 926, tf being what get_trace_format returned
parse_with(tf, content) == parse_trace_content(tf.m, content, Obj(tf.m, tf.val))

\* read_trace, lines 923-935: the text of the element decoded into the trace.
read_trace_data(r, element, context) ==
    IF ~r.ok \/ element.text = NoText THEN r
    ELSE move_data(parse_with(get_trace_format(r.m, TObj(r.m, r.val), context),
                              element.text),
                   r.val)

\* lines 937-942: the id of the trace t
set_trace_id(m, element, t) ==
    IF get_id(element) # None /\ Len(get_id(element)) > 0
    THEN SetT(m, t, [TObj(m, t) EXCEPT !.id = get_id(element)])
    ELSE IF TObj(m, t).continuation \in {"Begin", "Middle"}
    THEN warning(m, "Continuation is set but xml:id is missing")
    ELSE m

\* int(element.get(name)) where the attribute is not empty and int takes it
\* (held in halves, as the numbers of an object are), the old value otherwise
int_attr(element, name, old) ==
    IF has(element, name) /\ Len(get(element, name)) > 0 /\ int(get(element, name)).ok
    THEN Finite(2 * int(get(element, name)).v)
    ELSE old

\* lines 944-967: type, duration and timeOffset of the trace t
set_trace_attributes(m, element, t) ==
    SetT(m, t, [TObj(m, t) EXCEPT
                  !.type = IF has(element, "type")
                              /\ get(element, "type") \in {"penDown", "penUp", "indeterminate"}
                           THEN get(element, "type") ELSE @,
                  !.duration = int_attr(element, "duration", @),
                  !.time_offset = int_attr(element, "timeOffset", @)])

\* read_trace, lines 937-969
read_trace_attributes(r, element) ==
    IF ~r.ok THEN r
    ELSE Ret(set_trace_attributes(set_trace_id(r.m, element, r.val), element, r.val),
             r.val)

\* Reader.read_trace(element, definitions, context, require_refs)
read_trace(m, element, context, require_refs) ==
    read_trace_attributes(
        read_trace_data(
            read_trace_continuation(
                resolve_ref(
                    resolve_ref(Ret(talloc(m, Trace), next_trace_ref(m)),
                                element, "contextRef", "contexts", "context",
                                "Could not find context referenced by a trace",
                                require_refs),
                    element, "brushRef", "brushes", "brush",
                    "Could not find brush referenced by a trace", require_refs),
                element, require_refs),
            element, context),
        element)

\* lines 779-787 of read_trace_group
read_trace_group_id(r, element) ==
    IF ~r.ok THEN r
    ELSE Ret(read_annotations(
                 SetT(r.m, r.val,
                      [TObj(r.m, r.val) EXCEPT
                         !.id = IF get_id(element) # None /\ Len(get_id(element)) > 0
                                THEN get_id(element) ELSE @]),
                 element.children),
             r.val)

\* Reader.read_trace_group(element, definitions, require_refs)
read_trace_group(m, element, require_refs) ==
    read_trace_group_id(
        resolve_ref(
            resolve_ref(Ret(talloc(m, TraceGroup), next_trace_ref(m)),
                        element, "contextRef", "contexts", "context",
                        "Could not find context referenced by a traceGroup", require_refs),
            element, "brushRef", "brushes", "brush",
            "Could not find brush referenced by a traceGroup", require_refs),
        element)

\* [int(v) for v in parts]: ok is FALSE where an int raises ValueError
RECURSIVE ints(_)
ints(parts) ==
    IF parts = <<>> THEN [ok |-> TRUE, v |-> <<>>]
    ELSE IF ~int(Head(parts)).ok \/ ~ints(Tail(parts)).ok THEN [ok |-> FALSE, v |-> <<>>]
    ELSE [ok |-> TRUE, v |-> <<int(Head(parts)).v>> \o ints(Tail(parts)).v]

\* lines 827-843: the attribute 'from' or 'to' of the view t goes into the
\* field, as the list of the ints between its colons.
set_range(m, element, t, name, field, could_not) ==
    IF ~has(element, name) \/ Len(get(element, name)) = 0 THEN m
    ELSE IF ints(split(get(element, name), ":")).ok
    THEN SetT(m, t, [TObj(m, t) EXCEPT ![field] = ints(split(get(element, name), ":")).v])
    ELSE warning(SetT(m, t, [TObj(m, t) EXCEPT ![field] = <<>>]), could_not)

\* lines 820-845: trace_view.ID = id : the id is stored in a new attribute ID,
\* and trace_view.id stays ''.
new_trace_view(m, element, trace_data) ==
    Ret(set_range(
            set_range(
                talloc(m, [TraceView(trace_data) EXCEPT
                             !.ID = IF get_id(element) # None /\ Len(get_id(element)) > 0
                                    THEN get_id(element) ELSE @]),
                element, next_trace_ref(m), "from", "begin",
                "Could not convert \"from\" values to integers"),
            element, next_trace_ref(m), "to", "end",
            "Could not convert \"to\" values to integers"),
        next_trace_ref(m))

\* lines 810-818
find_trace_data(m, element, trace_data_id) ==
    IF Has(m.defs.traces, trace_data_id)
    THEN new_trace_view(m, element, Get(m.defs.traces, trace_data_id))
    ELSE IF Has(m.defs.trace_groups, trace_data_id)
    THEN new_trace_view(m, element, Get(m.defs.trace_groups, trace_data_id))
    ELSE IF Has(m.defs.trace_views, trace_data_id)
    THEN new_trace_view(m, element, Get(m.defs.trace_views, trace_data_id))
    ELSE RetNone(warning(m, "Could not find trace data referenced by a traceView"))

\* Reader.read_trace_view(element, definitions)
read_trace_view(m, element) ==
    IF ~has(element, "traceDataRef")
    THEN RetNone(warning(m, "Attribute \"traceDataRef\" is required for traceView element"))
    ELSE IF ~is_local_id(get(element, "traceDataRef")) /\ ~m.assume_local_refs
    THEN RetNone(warning(m, "External references are not yet supported"))
    ELSE find_trace_data(m, element, to_local_id(get(element, "traceDataRef")))

\* if len(item.id) > 0: definitions.<table>[item.id] = item
register(m, table, t) ==
    IF Len(TObj(m, t).id) > 0
    THEN [m EXCEPT !.defs[table] = Put(@, TObj(m, t).id, t)]
    ELSE m

\* lines 705-713 and 727-735: r is what read_trace or read_trace_view returned
append_item(traces, r, table, could_not) ==
    IF r.m.raised # "" THEN Ret(r.m, traces)
    ELSE IF ~r.ok THEN Ret(warning(r.m, could_not), traces)
    ELSE Ret(register(r.m, table, r.val), Append(traces, r.val))

\* lines 720-725: sub is what read_traces returned for the children of group g.
\* Where read_traces raised, line 720 assigns nothing and the lines after it
\* do not run: the group keeps its empty list and is neither appended nor
\* registered.
append_group(traces, sub, g) ==
    IF sub.m.raised # "" THEN Ret(sub.m, traces)
    ELSE Ret(register(SetT(sub.m, g, [TObj(sub.m, g) EXCEPT !.traces = sub.val]),
                      "trace_groups", g),
             Append(traces, g))

\* A variant in which a group without context passes no context on.
group_context_own(m, g, context) == TObj(m, g).context

\* group.context or context
group_context(m, g, context) ==
    IF TObj(m, g).context # NullRef THEN TObj(m, g).context ELSE context

RECURSIVE read_traces(_, _, _)

\* lines 715-725: r is what read_trace_group returned
read_group(traces, r, child, context) ==
    IF ~r.ok THEN Ret(warning(r.m, "Could not read traceGroup"), traces)
    ELSE append_group(traces,
                      read_traces(Ret(r.m, <<>>), child.children,
                                  group_context(r.m, r.val, context)),
                      r.val)

\* One iteration of the loop of line 703
read_child(acc, child, context) ==
    IF child.tag = "trace"
    THEN append_item(acc.val, read_trace(acc.m, child, context, TRUE), "traces",
                     "Could not read trace")
    ELSE IF child.tag = "traceGroup"
    THEN read_group(acc.val, read_trace_group(acc.m, child, TRUE), child, context)
    ELSE IF child.tag = "traceView"
    THEN append_item(acc.val, read_trace_view(acc.m, child), "trace_views",
                     "Could not read traceView")
    ELSE acc

\* Reader.read_traces(container, definitions, context), over the children of
\* the container from the first of `children` on; acc is the machine and the
\* list of items read so far.
read_traces(acc, children, context) ==
    IF children = <<>> \/ acc.m.raised # "" THEN acc
    ELSE read_traces(read_child(acc, Head(children), context), Tail(children), context)

\* ------------------------------------------------ Reader.read_definitions

\* lines 90-93, r being what read_ink_source returned
register_ink_source(r) ==
    IF ~r.ok \/ r.m.raised # "" THEN r.m
    ELSE IF Len(Obj(r.m, Obj(r.m, r.val).trace_format).id) > 0
    THEN [r.m EXCEPT
            !.defs.ink_sources = Put(@, Obj(r.m, r.val).id, r.val),
            !.defs.trace_formats = Put(@, Obj(r.m, Obj(r.m, r.val).trace_format).id,
                                       Obj(r.m, r.val).trace_format)]
    ELSE [r.m EXCEPT !.defs.ink_sources = Put(@, Obj(r.m, r.val).id, r.val)]

\* lines 84-93: the <inkSource> children of one <definitions>
RECURSIVE read_ink_sources(_, _)
read_ink_sources(m, es) ==
    IF es = <<>> \/ m.raised # "" THEN m
    ELSE read_ink_sources(register_ink_source(read_ink_source(m, Head(es))), Tail(es))

\* lines 99-102, r being what read_brush returned
register_brush(r) ==
    IF Len(brush_id(r.m, r.val)) = 0 THEN r.m
    ELSE [r.m EXCEPT !.defs.brushes = Put(@, brush_id(r.m, r.val), r.val)]

\* lines 96-102: the <brush> children of one <definitions>
RECURSIVE read_brushes(_, _)
read_brushes(m, es) ==
    IF es = <<>> \/ m.raised # "" THEN m
    ELSE read_brushes(register_brush(read_brush(m, Head(es))), Tail(es))

\* A variant of the registration: a trace format whose id is in the table
\* already is not registered (the first one read stays).
register_trace_format_first(r) ==
    IF Len(Obj(r.m, r.val).id) = 0 \/ Has(r.m.defs.trace_formats, Obj(r.m, r.val).id)
    THEN r.m
    ELSE [r.m EXCEPT !.defs.trace_formats = Put(@, Obj(r.m, r.val).id, r.val)]

\* lines 108-111, r being what read_trace_format returned
register_trace_format(r) ==
    IF Len(Obj(r.m, r.val).id) = 0 THEN r.m
    ELSE [r.m EXCEPT !.defs.trace_formats = Put(@, Obj(r.m, r.val).id, r.val)]

\* lines 105-111: the <traceFormat> children of one <definitions>
RECURSIVE read_trace_formats(_, _)
read_trace_formats(m, es) ==
    IF es = <<>> \/ m.raised # "" THEN m
    ELSE read_trace_formats(register_trace_format(read_trace_format(m, Head(es))),
                            Tail(es))

\* lines 117-120, r being what read_timestamp returned
register_timestamp(r) ==
    IF ~r.ok THEN r.m
    ELSE [r.m EXCEPT !.defs.timestamps = Put(@, timestamp_id(r.m, r.val), r.val)]

\* lines 114-120: the <timestamp> children of one <definitions>
RECURSIVE read_timestamps(_, _)
read_timestamps(m, es) ==
    IF es = <<>> \/ m.raised # "" THEN m
    ELSE read_timestamps(register_timestamp(read_timestamp(m, Head(es))), Tail(es))

\* lines 82-120: for element in definitions_elements
RECURSIVE read_definitions_elements(_, _)
read_definitions_elements(m, es) ==
    IF es = <<>> \/ m.raised # "" THEN m
    ELSE read_definitions_elements(
             read_timestamps(
                 read_trace_formats(
                     read_brushes(
                         read_ink_sources(m, findall(Head(es), "inkSource")),
                         findall(Head(es), "brush")),
                     findall(Head(es), "traceFormat")),
                 findall(Head(es), "timestamp")),
             Tail(es))

\* lines 127-130, r being what read_context returned
register_context(r) ==
    IF r.m.raised # "" \/ Len(context_id(r.m, r.val)) = 0 THEN r.m
    ELSE [r.m EXCEPT !.defs.contexts = Put(@, context_id(r.m, r.val), r.val)]

\* lines 124-130: the <context> children of one <definitions>
RECURSIVE read_contexts(_, _)
read_contexts(m, es) ==
    IF es = <<>> \/ m.raised # "" THEN m
    ELSE read_contexts(register_context(read_context(m, Head(es))), Tail(es))

\* lines 123-130: for element in definitions_elements
RECURSIVE read_definitions_contexts(_, _)
read_definitions_contexts(m, es) ==
    IF es = <<>> \/ m.raised # "" THEN m
    ELSE read_definitions_contexts(read_contexts(m, findall(Head(es), "context")),
                                   Tail(es))

\* lines 136-139, r being what read_context returned.  The test of line 136
\* keeps the context whose id is empty.
register_root_context(r) ==
    IF r.m.raised = "" /\ Len(context_id(r.m, r.val)) = 0
    THEN [r.m EXCEPT !.defs.contexts = Put(@, context_id(r.m, r.val), r.val)]
    ELSE r.m

\* lines 133-139: the <context> children of the root
RECURSIVE read_root_contexts(_, _)
read_root_contexts(m, es) ==
    IF es = <<>> \/ m.raised # "" THEN m
    ELSE read_root_contexts(register_root_context(read_context(m, Head(es))), Tail(es))

\* if id not in definitions.<table>: definitions.<table>[id] = item
put_if_absent(m, table, id, item) ==
    IF Len(id) > 0 /\ ~Has(m.defs[table], id)
    THEN [m EXCEPT !.defs[table] = Put(@, id, item)]
    ELSE m

\* lines 143-145
register_nested_ink_source(m, context) ==
    IF context.ink_source_or_ref.is = "InkSource"
    THEN put_if_absent(m, "ink_sources", Obj(m, context.ink_source_or_ref.ref).id,
                       context.ink_source_or_ref.ref)
    ELSE m

\* lines 147-149
register_nested_trace_format(m, context) ==
    IF context.trace_format_or_ref.is = "TraceFormat"
    THEN put_if_absent(m, "trace_formats", Obj(m, context.trace_format_or_ref.ref).id,
                       context.trace_format_or_ref.ref)
    ELSE m

\* lines 151-153
register_nested_brush(m, context) ==
    IF context.brush_or_ref.is = "BrushEnvelope"
    THEN put_if_absent(m, "brushes", brush_id(m, context.brush_or_ref.ref),
                       context.brush_or_ref.ref)
    ELSE m

\* lines 155-157
register_nested_timestamp(m, context) ==
    IF context.timestamp_or_ref.is = "TimestampEnvelope"
    THEN put_if_absent(m, "timestamps", timestamp_id(m, context.timestamp_or_ref.ref),
                       context.timestamp_or_ref.ref)
    ELSE m

\* lines 142-157: the items given inside the i-th and later contexts that have
\* an id are added to the tables that do not hold that id yet.
RECURSIVE register_nested(_, _)
register_nested(m, i) ==
    IF m.raised # "" \/ i > Len(m.defs.contexts) THEN m
    ELSE register_nested(
             register_nested_timestamp(
                 register_nested_brush(
                     register_nested_trace_format(
                         register_nested_ink_source(m, m.defs.contexts[i].v),
                         m.defs.contexts[i].v),
                     m.defs.contexts[i].v),
                 m.defs.contexts[i].v),
             i + 1)

\* lines 160-162: the traces, groups and views inside <definitions>, read for
\* the ids they register.
RECURSIVE read_definitions_traces(_, _)
read_definitions_traces(m, es) ==
    IF es = <<>> \/ m.raised # "" THEN m
    ELSE read_definitions_traces(read_traces(Ret(m, <<>>), Head(es).children, NullRef).m,
                                 Tail(es))

\* Reader.read_definitions(root): definitions starts empty (line 76).
read_definitions(m, root) ==
    read_definitions_traces(
        register_nested(
            read_root_contexts(
                read_definitions_contexts(
                    read_definitions_elements([m EXCEPT !.defs = EmptyDefinitions],
                                              findall(root, "definitions")),
                    findall(root, "definitions")),
                findall(root, "context")),
            1),
        findall(root, "definitions"))

\* ------------------------------------------------------- references.py
\* The three parent passes run the same loop on their own table; env_field is
\* the field of the envelope that holds the entity ("brush", "timestamp",
\* "context").

DefaultBrushRef ==
    <<"#", "D", "e", "f", "a", "u", "l", "t", "B", "r", "u", "s", "h">>

\* lines 46-50 / 84-88 / 120-124: the ids of the entities without a parent
\* reference (resolved) and of the others (backlog).
terminal_ids(table, roots) ==
    {table[i].k : i \in {j \in 1..Len(table) : table[j].v.parent_ref \in roots}}

\* A variant of the staging test: the parent only has to be in the table,
\* resolved or not.
stage_ids_known(table, backlog, resolved) ==
    {id \in backlog : Has(table, to_local_id(Get(table, id).parent_ref))}

\* lines 55-62: the ids of the backlog whose parent is resolved already.
stage_ids_of(table, backlog, resolved) ==
    {id \in backlog : to_local_id(Get(table, id).parent_ref) \in resolved}

\* lines 58-60: entity.parent = table[parent_id].entity for every id staged.
RECURSIVE set_parents(_, _, _, _)
set_parents(m, table, env_field, stage_ids) ==
    IF stage_ids = {} THEN m
    ELSE LET id        == CHOOSE x \in stage_ids : TRUE
             entity    == Get(table, id)[env_field]
             parent_id == to_local_id(Get(table, id).parent_ref)
             m1 == SetObj(m, entity, [Obj(m, entity) EXCEPT
                                        !.parent = Get(table, parent_id)[env_field]])
         IN  set_parents(m1, table, env_field, stage_ids \ {id})

\* A variant of the deletion: the ignored ids stay in the table.
keep_ids(table, ids) == table

\* for id in ignored_ids: del table[id]
RECURSIVE delete_ids(_, _)
delete_ids(table, ids) ==
    IF ids = {} THEN table
    ELSE LET id == CHOOSE x \in ids : TRUE
         IN  delete_ids(Del(table, id), ids \ {id})

\* A variant of the terminal test: only the brush without parent_ref is
\* terminal, "#DefaultBrush" is a reference like any other.
brush_terminal_ids_no_default(brushes) == terminal_ids(brushes, {<<>>})

\* resolve_brush_parent_references, lines 46-50
brush_terminal_ids(brushes) == terminal_ids(brushes, {<<>>, DefaultBrushRef})

\* resolve_timestamp_parent_references, lines 84-88
timestamp_terminal_ids(timestamps) == terminal_ids(timestamps, {<<>>})

\* A variant of the terminal test: every context is terminal, with or without
\* parent_ref.
context_terminal_ids_all(contexts) == Keys(contexts)

\* resolve_context_parent_references, lines 120-124
context_terminal_ids(contexts) == terminal_ids(contexts, {<<>>})

\* One context of resolve_context_content_references: a *_or_ref that is a
\* str (lines 156-165, 170-179, 203-213, 237-247).  target is the object the
\* table entry of the reference stands for, where the table has one.
content_by_ref(m, ctx, ref, table, field, target, missing) ==
    IF Len(ref) = 0 THEN m
    ELSE IF is_local_id(ref) \/ m.assume_local_refs
    THEN IF Has(table, to_local_id(ref))
         THEN SetObj(m, ctx, [Obj(m, ctx) EXCEPT
                                ![field] = target])
         ELSE print(m, missing, {ref})
    ELSE print(m, "External references are not yet supported", {ref})

\* lines 154-165
content_ink_source(m, env) ==
    IF env.ink_source_or_ref.is = "InkSource"
    THEN SetObj(m, env.context, [Obj(m, env.context) EXCEPT
                                   !.ink_source = env.ink_source_or_ref.ref])
    ELSE content_by_ref(m, env.context, env.ink_source_or_ref.s, m.defs.ink_sources,
                        "ink_source", IF Has(m.defs.ink_sources, to_local_id(env.ink_source_or_ref.s))
                        THEN Get(m.defs.ink_sources, to_local_id(env.ink_source_or_ref.s))
                        ELSE NullRef,
                        "Could not find inkSource referenced by context")

\* A variant that takes the nested trace format away from a context that has
\* it already.
content_trace_format_once(m, env) ==
    IF env.trace_format_or_ref.is = "TraceFormat"
    THEN SetObj(m, env.context,
                [Obj(m, env.context) EXCEPT
                   !.trace_format = IF @ = NullRef THEN env.trace_format_or_ref.ref
                                    ELSE NullRef])
    ELSE m

\* lines 168-179
content_trace_format(m, env) ==
    IF env.trace_format_or_ref.is = "TraceFormat"
    THEN SetObj(m, env.context, [Obj(m, env.context) EXCEPT
                                   !.trace_format = env.trace_format_or_ref.ref])
    ELSE content_by_ref(m, env.context, env.trace_format_or_ref.s, m.defs.trace_formats,
                        "trace_format", IF Has(m.defs.trace_formats, to_local_id(env.trace_format_or_ref.s))
                        THEN Get(m.defs.trace_formats, to_local_id(env.trace_format_or_ref.s))
                        ELSE NullRef,
                        "Could not find traceFormat referenced by context")

\* lines 182-213
content_brush(m, env) ==
    IF env.brush_or_ref.is = "BrushEnvelope"
    THEN LET nested == env.brush_or_ref.ref
             id == brush_id(m, nested)
         IN  IF Len(id) > 0
             THEN IF Has(m.defs.brushes, id)
                  THEN SetObj(m, env.context, [Obj(m, env.context) EXCEPT
                                                 !.brush = Get(m.defs.brushes, id).brush])
                  ELSE print(m, "Context references a brush that was ignored", {context_id(m, env)})
             ELSE LET m1 == SetObj(m, env.context, [Obj(m, env.context) EXCEPT
                                                      !.brush = nested.brush])
                      parent_id == to_local_id(nested.parent_ref)
                  IN  IF Len(nested.parent_ref) = 0 THEN m1
                      ELSE IF Has(m1.defs.brushes, parent_id)
                      THEN SetObj(m1, nested.brush,
                                  [Obj(m1, nested.brush) EXCEPT
                                     !.parent = Get(m1.defs.brushes, parent_id).brush])
                      ELSE print(m1, "Could not find brush referenced by brush",
                                 {nested.parent_ref})
    ELSE content_by_ref(m, env.context, env.brush_or_ref.s, m.defs.brushes,
                        "brush", IF Has(m.defs.brushes, to_local_id(env.brush_or_ref.s))
                        THEN Get(m.defs.brushes, to_local_id(env.brush_or_ref.s)).brush
                        ELSE NullRef,
                        "Could not find brush referenced by context")

\* lines 216-247.  The parent reference of a nested timestamp without id is
\* looked up as it is written (line 231), the "#" included.
content_timestamp(m, env) ==
    IF env.timestamp_or_ref.is = "TimestampEnvelope"
    THEN LET nested == env.timestamp_or_ref.ref
             id == timestamp_id(m, nested)
         IN  IF Len(id) > 0
             THEN IF Has(m.defs.timestamps, id)
                  THEN SetObj(m, env.context,
                              [Obj(m, env.context) EXCEPT
                                 !.timestamp = Get(m.defs.timestamps, id).timestamp])
                  ELSE print(m, "Context references a timestamp that was ignored", {context_id(m, env)})
             ELSE LET m1 == SetObj(m, env.context, [Obj(m, env.context) EXCEPT
                                                      !.timestamp = nested.timestamp])
                  IN  IF Len(nested.parent_ref) = 0 THEN m1
                      ELSE IF Has(m1.defs.timestamps, nested.parent_ref)
                      THEN SetObj(m1, nested.timestamp,
                                  [Obj(m1, nested.timestamp) EXCEPT
                                     !.parent = Get(m1.defs.timestamps,
                                                    nested.parent_ref).timestamp])
                      ELSE print(m1, "Could not find timestamp referenced by timestamp",
                                 {nested.parent_ref})
    ELSE content_by_ref(m, env.context, env.timestamp_or_ref.s, m.defs.timestamps,
                        "timestamp", IF Has(m.defs.timestamps, to_local_id(env.timestamp_or_ref.s))
                        THEN Get(m.defs.timestamps, to_local_id(env.timestamp_or_ref.s)).timestamp
                        ELSE NullRef,
                        "Could not find timestamp referenced by context")

\* resolve_context_content_references: for context in definitions.contexts.values(),
\* from the i-th on.
RECURSIVE resolve_context_content_references(_, _)
resolve_context_content_references(m, i) ==
    IF i > Len(m.defs.contexts) THEN m
    ELSE LET env == m.defs.contexts[i].v
         IN  resolve_context_content_references(
                 content_timestamp(
                     content_brush(
                         content_trace_format(content_ink_source(m, env), env), env), env),
                 i + 1)

\* while len(backlog) > 0 (lines 52-71), run to its end: the machine and the
\* backlog that the pass returns.
RECURSIVE parent_loop(_, _, _, _, _)
parent_loop(m, table_name, env_field, backlog, resolved) ==
    IF backlog = {} \/ stage_ids_of(m.defs[table_name], backlog, resolved) = {}
    THEN [m |-> m, backlog |-> backlog]
    ELSE parent_loop(set_parents(m, m.defs[table_name], env_field,
                                 stage_ids_of(m.defs[table_name], backlog, resolved)),
                     table_name, env_field,
                     backlog \ stage_ids_of(m.defs[table_name], backlog, resolved),
                     resolved \cup stage_ids_of(m.defs[table_name], backlog, resolved))

\* lines 8-15: r is what a parent pass returned; the ids of its backlog are
\* deleted and named in one message.
ignore_ids(r, table_name, message) ==
    IF r.backlog = {} THEN r.m
    ELSE print([r.m EXCEPT !.defs[table_name] = delete_ids(@, r.backlog)],
               message, r.backlog)

\* One parent pass and what resolve_references does with its result.
resolve_parent_references(m, table_name, env_field, terminal, message) ==
    ignore_ids(parent_loop(m, table_name, env_field,
                           Keys(m.defs[table_name]) \ terminal, terminal),
               table_name, message)

\* resolve_references(definitions, assume_local_refs), as one call
resolve_references(m) ==
    LET m1 == resolve_parent_references(
                  m, "brushes", "brush", brush_terminal_ids(m.defs.brushes),
                  "Some brush references are either cyclic or incorrect. Following brushes will be ignored")
        m2 == resolve_parent_references(
                  m1, "timestamps", "timestamp", timestamp_terminal_ids(m1.defs.timestamps),
                  "Some timestamp references are either cyclic or incorrect. Following timestamps will be ignored")
        m3 == resolve_parent_references(
                  m2, "contexts", "context", context_terminal_ids(m2.defs.contexts),
                  "Some context references are either cyclic or incorrect. Following timestamps will be ignored")
    IN  resolve_context_content_references(m3, 1)

\* ------------------------------------------------------------- the state

VARIABLES
    doc,                \* the content handed to read: [wellformed, root]
    assume_local_refs,  \* Reader.assume_local_refs
    handlers,           \* the warning handlers of the logger 'inkml'
    pc,                 \* where Reader.read stands
    heap,               \* the Accountable objects, by reference
    next_instance_index, \* Accountable._next_instance_index_, kept by the class
    theap,              \* the Trace, TraceGroup and TraceView objects
    definitions,        \* the rt.Definitions of this read
    backlog,            \* the backlog of the parent pass under way
    resolved,           \* its resolved set
    log,                \* what was written: logger warnings and prints
    raised,             \* the exception read ended with, "" while there is none
    ink,                \* the Ink.Ink that read returns
    other               \* a decode that runs in another thread

vars == <<doc, assume_local_refs, handlers, pc, heap, next_instance_index, theap, definitions,
          backlog, resolved, log, raised, ink, other>>

M == [heap |-> heap, next_instance_index |-> next_instance_index, theap |-> theap,
      defs |-> definitions, log |-> log, raised |-> raised,
      assume_local_refs |-> assume_local_refs, handlers |-> handlers,
      other |-> other, schedule |-> <<>>]

SetM(m) ==
    /\ heap' = m.heap
    /\ next_instance_index' = m.next_instance_index
    /\ theap' = m.theap
    /\ definitions' = m.defs
    /\ log' = m.log
    /\ raised' = m.raised

\* The tuples of n numbers whose sum is k at most
RECURSIVE Counts(_, _)
Counts(n, k) ==
    IF n = 0 THEN {<<>>}
    ELSE UNION {{<<i>> \o s : s \in Counts(n - 1, k - i)} : i \in 0..k}

\* The Accountable objects of the heap
Accountables(m) == {a \in 1..Len(m.heap) : "instance_index" \in DOMAIN m.heap[a]}

\* The steps that the other thread has still to take
Remaining ==
    3 * other.todo
    + (IF other.pc = "line_85" THEN 2 ELSE IF other.pc = "line_85_store" THEN 1 ELSE 0)

\* How the other thread may be scheduled within a call that leaves the
\* machine `alone` when no other thread runs: the number of steps it takes at
\* each point at which the threads may be switched, three points for each
\* Accountable that the call makes.  What the other thread does after the
\* last of them is a step of its own after the call.
Schedules(alone) ==
    Counts(3 * (Cardinality(Accountables(alone)) - Cardinality(Accountables(M))), Remaining)

\* The machine as a call finds it, the other thread scheduled so
Scheduled(schedule) == [M EXCEPT !.schedule = schedule]

\* ink.Ink() and ink.Definitions()
Ink ==
    [traces |-> <<>>,
     definitions |-> [contexts |-> <<>>, brushes |-> <<>>, ink_sources |-> <<>>,
                      trace_formats |-> <<>>, timestamps |-> <<>>]]

\* A decode in another thread, as far as this one can see it: the entities
\* it still has to make, the entities it has made, where it stands in
\* Accountable.__init__ and the value of the class counter it has read.
OtherDecode(todo) == [pc |-> "idle", todo |-> todo, loaded |-> 0, made |-> <<>>]

\* The state in which Reader(assume_local_refs).read(content) is entered
\* while another decode is about to make `beside` entities.  The Reader is
\* the first of the process: Reader.__init__ (lines 26-29) has added its
\* warning handler to the logger 'inkml'.
StartBeside(content, local, beside) ==
    /\ doc = content
    /\ assume_local_refs = local
    /\ handlers = 1
    /\ pc = "read"
    /\ heap = <<>>
    /\ next_instance_index = 0
    /\ theap = <<>>
    /\ definitions = EmptyDefinitions
    /\ backlog = {}
    /\ resolved = {}
    /\ log = <<>>
    /\ raised = ""
    /\ ink = Ink
    /\ other = OtherDecode(beside)

\* The state in which Reader(assume_local_refs).read(content) is entered
\* and no other decode runs.
Start(content, local) == StartBeside(content, local, 0)

\* ---------------------------------------------------------- Reader.read

\* lines 44-51: the content is parsed and the root element checked.
read_parse ==
    /\ pc = "read"
    /\ raised' = IF ~doc.wellformed \/ doc.root.tag # "ink" THEN "Exception" ELSE ""
    /\ pc' = IF raised' = "" THEN "read_definitions" ELSE "raised"
    /\ UNCHANGED <<doc, assume_local_refs, handlers, other, heap, next_instance_index, theap, definitions,
                   backlog, resolved, log, ink>>

\* line 53: definitions = self.read_definitions(root)
read_read_definitions ==
    /\ pc = "read_definitions"
    /\ \E schedule \in Schedules(read_definitions(M, doc.root)) :
          /\ SetM(read_definitions(Scheduled(schedule), doc.root))
          /\ other' = read_definitions(Scheduled(schedule), doc.root).other
    /\ pc' = IF raised' = "" THEN "resolve_brush" ELSE "raised"
    /\ UNCHANGED <<doc, assume_local_refs, handlers, backlog, resolved, ink>>

\* A parent pass is entered: backlog and resolved are filled (lines 42-50).
pass_enter(at, table, terminal, loop) ==
    /\ pc = at
    /\ resolved' = terminal
    /\ backlog' = Keys(table) \ terminal
    /\ pc' = loop
    /\ UNCHANGED <<doc, assume_local_refs, handlers, other, heap, next_instance_index, theap, definitions,
                   log, raised, ink>>

\* A variant of the round that leaves the staged ids in the backlog.
pass_round_keeps_backlog(loop, table, env_field) ==
    /\ pc = loop
    /\ backlog # {}
    /\ stage_ids_of(table, backlog, resolved) # {}
    /\ heap' = set_parents(M, table, env_field,
                           stage_ids_of(table, backlog, resolved)).heap
    /\ resolved' = resolved \cup stage_ids_of(table, backlog, resolved)
    /\ backlog' = backlog
    /\ UNCHANGED <<doc, assume_local_refs, handlers, other, pc, next_instance_index, theap, definitions,
                   log, raised, ink>>

\* One round of the while loop that resolves something (lines 52-71).
pass_round(loop, table, env_field) ==
    /\ pc = loop
    /\ backlog # {}
    /\ stage_ids_of(table, backlog, resolved) # {}
    /\ heap' = set_parents(M, table, env_field,
                           stage_ids_of(table, backlog, resolved)).heap
    /\ resolved' = resolved \cup stage_ids_of(table, backlog, resolved)
    /\ backlog' = backlog \ stage_ids_of(table, backlog, resolved)
    /\ UNCHANGED <<doc, assume_local_refs, handlers, other, pc, next_instance_index, theap, definitions,
                   log, raised, ink>>

\* The loop ends, the pass returns its backlog, and resolve_references
\* deletes these ids and prints one message about them (lines 8-15).
pass_leave(loop, table_name, message, then) ==
    /\ pc = loop
    /\ backlog = {} \/ stage_ids_of(definitions[table_name], backlog, resolved) = {}
    /\ definitions' = [definitions EXCEPT ![table_name] = delete_ids(@, backlog)]
    /\ log' = IF backlog # {} THEN print(M, message, backlog).log ELSE log
    /\ backlog' = {}
    /\ resolved' = {}
    /\ pc' = then
    /\ UNCHANGED <<doc, assume_local_refs, handlers, other, heap, next_instance_index, theap, raised, ink>>

resolve_brush_parent_references_enter ==
    pass_enter("resolve_brush", definitions.brushes,
               brush_terminal_ids(definitions.brushes), "brush_loop")

resolve_brush_parent_references_round ==
    pass_round("brush_loop", definitions.brushes, "brush")

resolve_brush_parent_references_leave ==
    pass_leave("brush_loop", "brushes",
               "Some brush references are either cyclic or incorrect. Following brushes will be ignored",
               "resolve_timestamp")

resolve_timestamp_parent_references_enter ==
    pass_enter("resolve_timestamp", definitions.timestamps,
               timestamp_terminal_ids(definitions.timestamps), "timestamp_loop")

resolve_timestamp_parent_references_round ==
    pass_round("timestamp_loop", definitions.timestamps, "timestamp")

resolve_timestamp_parent_references_leave ==
    pass_leave("timestamp_loop", "timestamps",
               "Some timestamp references are either cyclic or incorrect. Following timestamps will be ignored",
               "resolve_context")

resolve_context_parent_references_enter ==
    pass_enter("resolve_context", definitions.contexts,
               context_terminal_ids(definitions.contexts), "context_loop")

resolve_context_parent_references_round ==
    pass_round("context_loop", definitions.contexts, "context")

resolve_context_parent_references_leave ==
    pass_leave("context_loop", "contexts",
               "Some context references are either cyclic or incorrect. Following timestamps will be ignored",
               "resolve_content")

\* line 38 of references.py
resolve_content ==
    /\ pc = "resolve_content"
    /\ SetM(resolve_context_content_references(M, 1))
    /\ pc' = "read_traces"
    /\ UNCHANGED <<doc, assume_local_refs, handlers, other, backlog, resolved, ink>>

\* [env.brush for env in definitions.brushes.values()] and the like
entities(table, env_field) == [i \in 1..Len(table) |-> table[i].v[env_field]]

\* lines 58-73: ink.traces and ink.definitions, r being what read_traces
\* returned for the root.
return_ink(r) ==
    /\ SetM(IF r.m.raised # "" THEN r.m ELSE read_annotations(r.m, doc.root.children))
    /\ ink' = IF r.m.raised # "" THEN ink
              ELSE [traces |-> r.val,
                    definitions |->
                        [contexts |-> entities(r.m.defs.contexts, "context"),
                         brushes |-> entities(r.m.defs.brushes, "brush"),
                         ink_sources |-> Values(r.m.defs.ink_sources),
                         trace_formats |-> Values(r.m.defs.trace_formats),
                         timestamps |-> entities(r.m.defs.timestamps, "timestamp")]]
    /\ pc' = IF r.m.raised = "" THEN "returned" ELSE "raised"

\* lines 58-73: the traces of the root are read and the definitions moved
\* into the Ink that is returned.
read_read_traces ==
    /\ pc = "read_traces"
    /\ \E schedule \in Schedules(read_traces(Ret(M, <<>>), doc.root.children, NullRef).m) :
          /\ return_ink(read_traces(Ret(Scheduled(schedule), <<>>), doc.root.children,
                                    NullRef))
          /\ other' = read_traces(Ret(Scheduled(schedule), <<>>), doc.root.children,
                                  NullRef).m.other
    /\ UNCHANGED <<doc, assume_local_refs, handlers, backlog, resolved>>

Next ==
    \/ read_parse
    \/ read_read_definitions
    \/ resolve_brush_parent_references_enter
    \/ resolve_brush_parent_references_round
    \/ resolve_brush_parent_references_leave
    \/ resolve_timestamp_parent_references_enter
    \/ resolve_timestamp_parent_references_round
    \/ resolve_timestamp_parent_references_leave
    \/ resolve_context_parent_references_enter
    \/ resolve_context_parent_references_round
    \/ resolve_context_parent_references_leave
    \/ resolve_content
    \/ read_read_traces

\* ------------------------------------------------------- the documents

\* Bounds of the documents read.
NumBrushIds == 3
NumTimestampIds == 2
NumContextIds == 2
MaxDefs == 3

IdNames == <<"a", "b", "c", "d", "e", "f">>

\* The reference "#<name>"
Hash(name) == <<"#", name>>

\* An attribute that is written only when it has a value
Attr(name, v) == IF v = None THEN NoAttrs ELSE (name :> v)

Absent == <<"absent">>

\* What an element of a parent pass may be: absent, or present with no
\* reference, a reference to one of the ids, or a reference to nothing.
RefChoices(n) == {Absent, None, Hash("z")} \cup {Hash(IdNames[i]) : i \in 1..n}

Count(f) == Cardinality({i \in DOMAIN f : f[i] # Absent})

\* The elements <tag xml:id=IdNames[i] ref_attr=f[i]/>, in the order of the ids
RECURSIVE ref_elements(_, _, _, _)
ref_elements(tag, ref_attr, f, i) ==
    IF i > Len(f) THEN <<>>
    ELSE (IF f[i] = Absent THEN <<>>
          ELSE <<Elem(tag, Attr("xml:id", <<IdNames[i]>>) @@ Attr(ref_attr, f[i]), <<>>)>>)
         \o ref_elements(tag, ref_attr, f, i + 1)

Document(children) == [wellformed |-> TRUE, root |-> Elem("ink", NoAttrs, children)]

\* A document whose <definitions> holds brushes, timestamps and contexts that
\* reference each other, themselves, the default brush, or nothing known.
ReferenceDocument(fb, ft, fc) ==
    Document(<<Elem("definitions", NoAttrs,
                    ref_elements("brush", "brushRef", fb, 1)
                    \o ref_elements("timestamp", "timestampRef", ft, 1)
                    \o ref_elements("context", "contextRef", fc, 1))>>)

\* A text that is no XML, and a document with another root.
BrokenDocuments ==
    {[wellformed |-> FALSE, root |-> Elem("ink", NoAttrs, <<>>)],
     [wellformed |-> TRUE, root |-> Elem("svg", NoAttrs, <<>>)]}

Init ==
    \/ \E content \in BrokenDocuments : Start(content, FALSE)
    \/ \E fb \in [1..NumBrushIds -> RefChoices(NumBrushIds) \cup {DefaultBrushRef}] :
         /\ Count(fb) <= MaxDefs
         /\ \E ft \in [1..NumTimestampIds -> RefChoices(NumTimestampIds)] :
              /\ Count(fb) + Count(ft) <= MaxDefs
              /\ \E fc \in [1..NumContextIds -> RefChoices(NumContextIds)] :
                   /\ Count(fb) + Count(ft) + Count(fc) <= MaxDefs
                   /\ Start(ReferenceDocument(fb, ft, fc), FALSE)

Spec == Init /\ [][Next]_vars

\* ------------------------------------- documents: the definitions harvest

MaxChildren == 3

\* <traceFormat xml:id=id> with one decimal channel per name
TraceFormatElement(id, names) ==
    Elem("traceFormat", Attr("xml:id", id),
         [i \in 1..Len(names) |-> Elem("channel", "name" :> <<names[i]>>, <<>>)])

InkSourceElement(id, children) == Elem("inkSource", Attr("xml:id", id), children)

\* A <definitions> whose brushes, timestamps and contexts reference each
\* other properly: q has the parent p in each category.
ChainedDefinitions ==
    Elem("definitions", NoAttrs,
         <<Elem("brush", Attr("xml:id", <<"p">>), <<>>),
           Elem("brush", Attr("xml:id", <<"q">>) @@ Attr("brushRef", Hash("p")), <<>>),
           Elem("timestamp", Attr("xml:id", <<"p">>), <<>>),
           Elem("timestamp", Attr("xml:id", <<"q">>) @@ Attr("timestampRef", Hash("p")),
                <<>>),
           Elem("context", Attr("xml:id", <<"p">>), <<>>),
           Elem("context", Attr("xml:id", <<"q">>) @@ Attr("contextRef", Hash("p")), <<>>)>>)

\* The elements a <definitions> is filled with: trace formats, ink sources,
\* brushes, timestamps and contexts that share ids, an ink source without id,
\* one whose <channelProperties> is empty, and a context with a reference to
\* nothing.
DefinitionAlphabet ==
    <<TraceFormatElement(<<"f">>, <<"A">>),
      TraceFormatElement(<<"f">>, <<"B">>),
      InkSourceElement(<<"s">>, <<TraceFormatElement(<<"f">>, <<"C">>)>>),
      InkSourceElement(<<"s">>, <<TraceFormatElement(None, <<"D">>)>>),
      Elem("brush", Attr("xml:id", <<"a">>), <<>>),
      Elem("brush", Attr("xml:id", <<"a">>) @@ Attr("brushRef", DefaultBrushRef), <<>>),
      Elem("context", Attr("xml:id", <<"c">>),
           <<TraceFormatElement(<<"f">>, <<"E">>),
             Elem("brush", Attr("xml:id", <<"a">>) @@ Attr("brushRef", Hash("p")), <<>>)>>),
      Elem("timestamp", Attr("xml:id", <<"t">>) @@ Attr("time", <<"1">>), <<>>),
      Elem("timestamp", Attr("xml:id", <<"t">>) @@ Attr("time", <<"2">>), <<>>),
      InkSourceElement(<<"r">>, <<TraceFormatElement(None, <<"X">>),
                                  Elem("channelProperties", NoAttrs, <<>>)>>),
      InkSourceElement(None, <<TraceFormatElement(None, <<"X">>)>>),
      Elem("context", Attr("xml:id", <<"d">>) @@ Attr("inkSourceRef", Hash("z")), <<>>)>>

\* The document whose definitions are the elements chosen by f, the first k
\* in one <definitions> and the others in the next.
DefinitionsDocument(f, k) ==
    Document(<<ChainedDefinitions>>
             \o (IF k > 0
                 THEN <<Elem("definitions", NoAttrs,
                             [i \in 1..k |-> DefinitionAlphabet[f[i]]])>>
                 ELSE <<>>)
             \o (IF Len(f) > k
                 THEN <<Elem("definitions", NoAttrs,
                             [i \in 1..(Len(f) - k) |-> DefinitionAlphabet[f[k + i]]])>>
                 ELSE <<>>))

\* What stands beside the definitions, as children of <ink>: contexts with
\* and without id, and traces that reference a context.
RootAlphabet ==
    <<Elem("context", Attr("xml:id", <<"c">>), <<>>),
      Elem("context", NoAttrs, <<>>),
      Elem("trace", Attr("xml:id", <<"t">>) @@ Attr("contextRef", Hash("c")), <<>>),
      Elem("trace", Attr("xml:id", <<"u">>) @@ Attr("contextRef", Hash("q")), <<>>)>>

RootDocument(f) ==
    Document(<<ChainedDefinitions>> \o [i \in 1..Len(f) |-> RootAlphabet[f[i]]])

InitDefinitions ==
    \/ \E content \in BrokenDocuments : Start(content, FALSE)
    \/ \E n \in 0..MaxChildren :
         \E f \in [1..n -> 1..Len(DefinitionAlphabet)] :
           \E k \in (IF n = 0 THEN {0} ELSE 1..n) :
             Start(DefinitionsDocument(f, k), FALSE)
    \/ \E n \in 0..MaxChildren :
         \E f \in [1..n -> 1..Len(RootAlphabet)] :
           \E local \in BOOLEAN : Start(RootDocument(f), local)

SpecDefinitions == InitDefinitions /\ [][Next]_vars

\* ----------------------------------------------------- trace documents

MaxTokens == 3
MaxBodyTokens == 4

\* An element with text and no children; the text of an element without
\* characters is None.
TextElem(tag, attrs, text) ==
    [Elem(tag, attrs, <<>>) EXCEPT !.text = IF text = <<>> THEN NoText ELSE text]

\* sep.join(parts)
RECURSIVE Join(_, _)
Join(parts, sep) ==
    IF parts = <<>> THEN <<>>
    ELSE IF Len(parts) = 1 THEN parts[1]
    ELSE parts[1] \o sep \o Join(Tail(parts), sep)

\* The tokens a trace body is written with: a number, a first difference, the
\* wildcard, a boolean and the placeholder.
TokenAlphabet == <<<<"1">>, <<"'", "1">>, <<"*">>, <<"T">>, <<"?">>>>

\* The text of a trace: points separated by ",", the tokens of a point by " ".
\* A point is the sequence of the indexes of its tokens in the alphabet.
Body(points) ==
    Join([i \in 1..Len(points) |->
             Join([j \in 1..Len(points[i]) |-> TokenAlphabet[points[i][j]]], <<" ">>)],
         <<",">>)

\* <traceFormat xml:id=id> with the regular channel X and one intermittent
\* channel of the given name and type
IntermittentFormatElement(id, name, type) ==
    Elem("traceFormat", Attr("xml:id", id),
         <<Elem("channel", "name" :> <<"X">>, <<>>),
           Elem("intermittentChannels", NoAttrs,
                <<Elem("channel", ("name" :> <<name>>) @@ ("type" :> type), <<>>)>>)>>)

\* The trace formats f (X and the intermittent boolean F) and g (X and the
\* intermittent integer G), and the contexts c and d that refer to them.
TraceDefinitions ==
    Elem("definitions", NoAttrs,
         <<IntermittentFormatElement(<<"f">>, "F", "boolean"),
           IntermittentFormatElement(<<"g">>, "G", "integer"),
           Elem("context", Attr("xml:id", <<"c">>) @@ Attr("traceFormatRef", Hash("f")),
                <<>>),
           Elem("context", Attr("xml:id", <<"d">>) @@ Attr("traceFormatRef", Hash("g")),
                <<>>)>>)

\* The contextRef of the trace read: none (the default trace format X, Y
\* applies), #c or #d.
ContextChoices == {None, Hash("c"), Hash("d")}

\* The document with the trace t of the given points, followed by the trace
\* u of one point under the default trace format.
TraceDocument(context_ref, points) ==
    Document(<<ChainedDefinitions, TraceDefinitions,
               TextElem("trace", Attr("xml:id", <<"t">>) @@ Attr("contextRef", context_ref),
                        Body(points)),
               TextElem("trace", Attr("xml:id", <<"u">>), <<"1", " ", "2">>)>>)

Points(n) == [1..n -> 1..Len(TokenAlphabet)]

InitTraces ==
    \E context_ref \in ContextChoices :
      \E n1 \in 0..MaxTokens : \E p1 \in Points(n1) :
        \/ Start(TraceDocument(context_ref, <<p1>>), FALSE)
        \/ \E n2 \in 0..MaxTokens : \E p2 \in Points(n2) :
             /\ n1 + n2 <= MaxBodyTokens
             /\ Start(TraceDocument(context_ref, <<p1, p2>>), FALSE)

SpecTraces == InitTraces /\ [][Next]_vars

\* ------------------------------------------- first-difference documents

\* The start value and the differences of a channel, in halves, are between
\* -MaxStart and MaxStart and between -MaxDelta and MaxDelta.
MaxStart == 3
MaxDelta == 3

\* The decimal digits of a natural number
RECURSIVE Decimal(_)
Decimal(n) ==
    IF n < 10 THEN <<HexDigits[n + 1]>> ELSE Decimal(n \div 10) \o <<HexDigits[(n % 10) + 1]>>

Abs(x) == IF x < 0 THEN 0 - x ELSE x

\* The literal of the number of h halves: "-1.5" for -3.
Literal(h) ==
    (IF h < 0 THEN <<"-">> ELSE <<>>)
    \o Decimal(Abs(h) \div 2)
    \o (IF Abs(h) % 2 = 1 THEN <<".", "5">> ELSE <<>>)

\* The document with the channel X of the given type and two traces of three
\* points: e gives x0, x0 + d1, x0 + d1 + d2 and d gives x0, 'd1, 'd2.
DifferenceDocument(type, x0, d1, d2) ==
    Document(<<ChainedDefinitions,
               Elem("definitions", NoAttrs,
                    <<Elem("traceFormat", Attr("xml:id", <<"x">>),
                           <<Elem("channel", ("name" :> <<"X">>) @@ ("type" :> type),
                                  <<>>)>>),
                      Elem("context",
                           Attr("xml:id", <<"k">>) @@ Attr("traceFormatRef", Hash("x")),
                           <<>>)>>),
               TextElem("trace", Attr("xml:id", <<"e">>) @@ Attr("contextRef", Hash("k")),
                        Join(<<Literal(x0), Literal(x0 + d1), Literal(x0 + d1 + d2)>>,
                             <<",">>)),
               TextElem("trace", Attr("xml:id", <<"d">>) @@ Attr("contextRef", Hash("k")),
                        Join(<<Literal(x0), <<"'">> \o Literal(d1), <<"'">> \o Literal(d2)>>,
                             <<",">>))>>)

InitDifferences ==
    \E type \in {"decimal", "integer"} :
      \E x0 \in (0 - MaxStart)..MaxStart :
        \E d1 \in (0 - MaxDelta)..MaxDelta : \E d2 \in (0 - MaxDelta)..MaxDelta :
          Start(DifferenceDocument(type, x0, d1, d2), FALSE)

SpecDifferences == InitDifferences /\ [][Next]_vars

\* --------------------------------- documents: traces, groups and views

MaxItems == 3

\* A <definitions> with the brush a, which is its own parent, and the trace
\* w that is drawn with it.
ItemDefinitions ==
    Elem("definitions", NoAttrs,
         <<Elem("brush", Attr("xml:id", <<"a">>) @@ Attr("brushRef", Hash("a")), <<>>),
           TextElem("trace", Attr("xml:id", <<"w">>) @@ Attr("brushRef", Hash("a")),
                    <<"1", " ", "2">>)>>)

\* <trace xml:id=id continuation=kind priorRef=prior_ref>
ContinuationElement(id, kind, prior_ref) ==
    TextElem("trace",
             Attr("xml:id", <<id>>) @@ ("continuation" :> kind)
                 @@ Attr("priorRef", prior_ref),
             <<"3", " ", "4">>)

\* <traceView xml:id=id traceDataRef=ref/>
ViewElement(id, ref) ==
    Elem("traceView", Attr("xml:id", <<id>>) @@ Attr("traceDataRef", ref), <<>>)

\* What stands in <ink> after the definitions: the trace t; continuations of
\* t, of a trace that does not exist, of no trace and of t named without '#';
\* views of t, of the view v, of the trace w of the definitions and of the
\* group g; traces that name a context that does not exist, the brush a and
\* the brush p; and the group g of one trace.
ItemAlphabet ==
    <<TextElem("trace", Attr("xml:id", <<"t">>), <<"1", " ", "2">>),
      ContinuationElement("m", "middle", Hash("t")),
      ContinuationElement("n", "end", Hash("x")),
      ContinuationElement("o", "end", None),
      ContinuationElement("e", "end", <<"t">>),
      ViewElement("v", Hash("t")),
      ViewElement("y", Hash("v")),
      ViewElement("k", Hash("w")),
      ViewElement("j", Hash("g")),
      Elem("trace", Attr("xml:id", <<"r">>) @@ Attr("contextRef", Hash("z")), <<>>),
      Elem("trace", Attr("xml:id", <<"s">>) @@ Attr("brushRef", Hash("a")), <<>>),
      Elem("trace", Attr("xml:id", <<"b">>) @@ Attr("brushRef", Hash("p")), <<>>),
      Elem("traceGroup", Attr("xml:id", <<"g">>),
           <<TextElem("trace", Attr("xml:id", <<"h">>), <<"5", " ", "6">>)>>)>>

ItemDocument(f) ==
    Document(<<ChainedDefinitions, ItemDefinitions>>
             \o [i \in 1..Len(f) |-> ItemAlphabet[f[i]]])

InitItems ==
    \E n \in 0..MaxItems :
      \E f \in [1..n -> 1..Len(ItemAlphabet)] :
        \E local \in BOOLEAN : Start(ItemDocument(f), local)

SpecItems == InitItems /\ [][Next]_vars

\* ------------------------------------- documents: contexts and formats

\* What a context may reference: nothing, the trace format f or the ink
\* source s.  What a trace or a group may reference: nothing, or the context
\* p or q.
FormatRefs == {None, Hash("f")}

SourceRefs == {None, Hash("s")}

ContextRefs == {None, Hash("p"), Hash("q")}

\* How the trace of the document stands in <ink>: alone, or in a group that
\* references nothing, p or q.
Wrappings == {Absent} \cup ContextRefs

Bodies == {<<"1">>, <<"1", " ", "2">>}

\* A <definitions> with the trace format f of one channel A, the ink source s
\* whose trace format has the channels B and C, and the contexts p and q, q
\* with the parent p, each with the references given.
FormatDefinitions(tp, sp, tq, sq) ==
    Elem("definitions", NoAttrs,
         <<Elem("brush", Attr("xml:id", <<"p">>), <<>>),
           Elem("brush", Attr("xml:id", <<"q">>) @@ Attr("brushRef", Hash("p")), <<>>),
           Elem("timestamp", Attr("xml:id", <<"p">>), <<>>),
           Elem("timestamp", Attr("xml:id", <<"q">>) @@ Attr("timestampRef", Hash("p")),
                <<>>),
           TraceFormatElement(<<"f">>, <<"A">>),
           InkSourceElement(<<"s">>, <<TraceFormatElement(None, <<"B", "C">>)>>),
           Elem("context",
                Attr("xml:id", <<"p">>) @@ Attr("traceFormatRef", tp)
                    @@ Attr("inkSourceRef", sp),
                <<>>),
           Elem("context",
                Attr("xml:id", <<"q">>) @@ Attr("contextRef", Hash("p"))
                    @@ Attr("traceFormatRef", tq) @@ Attr("inkSourceRef", sq),
                <<>>)>>)

\* <trace xml:id="t" contextRef=c>body</trace>, alone or in a group
FormatItem(c, wrap, body) ==
    IF wrap = Absent
    THEN TextElem("trace", Attr("xml:id", <<"t">>) @@ Attr("contextRef", c), body)
    ELSE Elem("traceGroup", Attr("xml:id", <<"g">>) @@ Attr("contextRef", wrap),
              <<TextElem("trace", Attr("xml:id", <<"t">>) @@ Attr("contextRef", c), body)>>)

FormatDocument(tp, sp, tq, sq, c, wrap, body) ==
    Document(<<FormatDefinitions(tp, sp, tq, sq), FormatItem(c, wrap, body)>>)

InitFormats ==
    \E tp \in FormatRefs, sp \in SourceRefs, tq \in FormatRefs, sq \in SourceRefs :
      \E c \in ContextRefs, wrap \in Wrappings, body \in Bodies :
        Start(FormatDocument(tp, sp, tq, sq, c, wrap, body), FALSE)

SpecFormats == InitFormats /\ [][Next]_vars

\* ------------------------------------------------- two decodes at once

\* The other decode makes at most MaxOther entities.
MaxOther == 2

\* Accountable.__init__ in the other thread, between two steps of this one:
\* line 84
other_init_index ==
    /\ other.pc = "idle"
    /\ other.todo > 0
    /\ other' = other_line_84(M).other
    /\ UNCHANGED <<doc, assume_local_refs, handlers, pc, heap, next_instance_index, theap,
                   definitions, backlog, resolved, log, raised, ink>>

\* line 85, the counter is read
other_increment_load ==
    /\ other.pc = "line_85"
    /\ other' = other_line_85_load(M).other
    /\ UNCHANGED <<doc, assume_local_refs, handlers, pc, heap, next_instance_index, theap,
                   definitions, backlog, resolved, log, raised, ink>>

\* line 85, the counter is written
other_increment_store ==
    /\ other.pc = "line_85_store"
    /\ next_instance_index' = other_line_85_store(M).next_instance_index
    /\ other' = other_line_85_store(M).other
    /\ UNCHANGED <<doc, assume_local_refs, handlers, pc, heap, theap, definitions, backlog,
                   resolved, log, raised, ink>>

\* The steps of Reader.read in one thread and of the entities that a decode
\* in another thread makes, in any order.
NextConcurrent ==
    \/ Next
    \/ other_init_index
    \/ other_increment_load
    \/ other_increment_store

InitConcurrent ==
    \E tq \in FormatRefs, c \in ContextRefs, beside \in 1..MaxOther :
        StartBeside(FormatDocument(None, None, tq, Hash("s"), c, Absent, <<"1", " ", "2">>),
                    FALSE, beside)

SpecConcurrent == InitConcurrent /\ [][NextConcurrent]_vars

\* ------------------------------------------------ the resolver, twice

MaxResolved == 3

\* references.resolve_references called once more on the Definitions that
\* Reader.read has resolved (line 56), in place of reading the traces.
resolve_references_again ==
    /\ pc = "read_traces"
    /\ SetM(resolve_references(M))
    /\ pc' = "resolved_again"
    /\ UNCHANGED <<doc, assume_local_refs, handlers, other, backlog, resolved, ink>>

NextAgain ==
    \/ Next
    \/ resolve_references_again

\* What a <definitions> is filled with: elements without any reference
\* (trace formats, ink sources, brushes, timestamps, contexts with nested
\* content) and, after them, elements with references, to an element that
\* exists and to one that does not.
ResolvedAlphabet ==
    <<TraceFormatElement(<<"f">>, <<"A">>),
      InkSourceElement(<<"s">>, <<TraceFormatElement(None, <<"B">>)>>),
      Elem("brush", Attr("xml:id", <<"a">>), <<>>),
      Elem("timestamp", Attr("xml:id", <<"t">>) @@ Attr("time", <<"1">>), <<>>),
      Elem("context", Attr("xml:id", <<"c">>), <<>>),
      Elem("context", Attr("xml:id", <<"d">>),
           <<TraceFormatElement(<<"f">>, <<"E">>),
             Elem("brush", Attr("xml:id", <<"a">>), <<>>)>>),
      Elem("context", Attr("xml:id", <<"e">>),
           <<InkSourceElement(<<"s">>, <<TraceFormatElement(None, <<"C">>)>>),
             Elem("brush", NoAttrs, <<>>),
             Elem("timestamp", Attr("time", <<"2">>), <<>>)>>),
      Elem("brush", Attr("xml:id", <<"b">>) @@ Attr("brushRef", Hash("a")), <<>>),
      Elem("timestamp", Attr("xml:id", <<"u">>) @@ Attr("timestampRef", Hash("t")), <<>>),
      Elem("context",
           Attr("xml:id", <<"k">>) @@ Attr("contextRef", Hash("c"))
               @@ Attr("traceFormatRef", Hash("f")) @@ Attr("brushRef", Hash("b")),
           <<>>),
      Elem("context", Attr("xml:id", <<"z">>) @@ Attr("inkSourceRef", Hash("y")), <<>>)>>

ResolvedDocument(f) ==
    Document(<<Elem("definitions", NoAttrs, [i \in 1..Len(f) |-> ResolvedAlphabet[f[i]]])>>)

InitAgain ==
    \E n \in 0..MaxResolved :
      \E f \in [1..n -> 1..Len(ResolvedAlphabet)] : Start(ResolvedDocument(f), FALSE)

SpecAgain == InitAgain /\ [][NextAgain]_vars

\* ------------------------------------------- documents: integer channels

\* The numbers written, in halves, are between -MaxHalf and MaxHalf.
MaxHalf == 5

Halves == (0 - MaxHalf)..MaxHalf

\* The document with the trace format r of the integer channel X and the
\* intermittent integer channel G, and the trace t of n points under it: its
\* first point gives x and g, and its second point, when there is one, the
\* first difference d of X and no sample of G.
RoundingDocument(x, g, d, n) ==
    Document(<<ChainedDefinitions,
               Elem("definitions", NoAttrs,
                    <<Elem("traceFormat", Attr("xml:id", <<"r">>),
                           <<Elem("channel", ("name" :> <<"X">>) @@ ("type" :> "integer"),
                                  <<>>),
                             Elem("intermittentChannels", NoAttrs,
                                  <<Elem("channel",
                                         ("name" :> <<"G">>) @@ ("type" :> "integer"),
                                         <<>>)>>)>>),
                      Elem("context",
                           Attr("xml:id", <<"k">>) @@ Attr("traceFormatRef", Hash("r")),
                           <<>>)>>),
               TextElem("trace", Attr("xml:id", <<"t">>) @@ Attr("contextRef", Hash("k")),
                        Literal(x) \o <<" ">> \o Literal(g)
                        \o (IF n = 1 THEN <<>>
                            ELSE <<",", "'">> \o Literal(d) \o <<" ", "?">>))>>)

InitRounding ==
    \E x \in Halves, g \in Halves, d \in Halves, n \in 1..2 :
        Start(RoundingDocument(x, g, d, n), FALSE)

SpecRounding == InitRounding /\ [][Next]_vars

\* ------------------------------------------------- documents: markers

\* The trace of these documents has MarkerPoints points.
MarkerPoints == 4

\* What channel X is written with at a point: numbers without marker, with
\* the markers of an explicit value, of a first and of a second difference,
\* and the wildcard.
XTokens ==
    <<<<"1", "0">>, <<"'", "1">>, <<"\"", "0">>, <<"\"", "1">>, <<"1">>, <<"!", "2">>,
      <<"*">>, <<"'", ".", "5">>>>

\* What channel Y is written with, point by point: the differences of the
\* example (20, '2, "0, "0), and a first difference followed by numbers
\* without marker.
YColumns ==
    <<<<<<"2", "0">>, <<"'", "2">>, <<"\"", "0">>, <<"\"", "0">>>>,
      <<<<"2", "0">>, <<"'", "2">>, <<"2">>, <<"2">>>>>>

\* The document with the regular channels X, of the given type, and Y, and
\* the trace t whose point i is written XTokens[xs[i]] and ys[i].
MarkerDocument(type, xs, ys) ==
    Document(<<ChainedDefinitions,
               Elem("definitions", NoAttrs,
                    <<Elem("traceFormat", Attr("xml:id", <<"x">>),
                           <<Elem("channel", ("name" :> <<"X">>) @@ ("type" :> type),
                                  <<>>),
                             Elem("channel", "name" :> <<"Y">>, <<>>)>>),
                      Elem("context",
                           Attr("xml:id", <<"k">>) @@ Attr("traceFormatRef", Hash("x")),
                           <<>>)>>),
               TextElem("trace", Attr("xml:id", <<"t">>) @@ Attr("contextRef", Hash("k")),
                        Join([i \in 1..MarkerPoints |->
                                 XTokens[xs[i]] \o <<" ">> \o ys[i]],
                             <<",">>))>>)

InitMarkers ==
    \E type \in {"decimal", "integer"} :
      \E xs \in [1..MarkerPoints -> 1..Len(XTokens)] :
        \E y \in 1..Len(YColumns) :
          Start(MarkerDocument(type, xs, YColumns[y]), FALSE)

SpecMarkers == InitMarkers /\ [][Next]_vars

\* --------------------------------------- documents: intermittent channels

\* The trace of these documents has IntermittentPoints points.
IntermittentPoints == 3

\* What the intermittent channel G is written with at a point: the
\* placeholder, the wildcard, numbers, a boolean and a number with a marker.
GTokens ==
    <<<<"?">>, <<"*">>, <<"1">>, <<"3">>, <<"T">>, <<"'", "1">>, <<"-", ".", "5">>>>

\* The document with the regular channel X and the intermittent channel G of
\* the given type, and the trace t whose point i is written 1 and
\* GTokens[gs[i]].
IntermittentDocument(type, gs) ==
    Document(<<ChainedDefinitions,
               Elem("definitions", NoAttrs,
                    <<IntermittentFormatElement(<<"g">>, "G", type),
                      Elem("context",
                           Attr("xml:id", <<"k">>) @@ Attr("traceFormatRef", Hash("g")),
                           <<>>)>>),
               TextElem("trace", Attr("xml:id", <<"t">>) @@ Attr("contextRef", Hash("k")),
                        Join([i \in 1..IntermittentPoints |->
                                 <<"1", " ">> \o GTokens[gs[i]]],
                             <<",">>))>>)

InitIntermittent ==
    \E type \in {"decimal", "integer", "boolean"} :
      \E gs \in [1..IntermittentPoints -> 1..Len(GTokens)] :
        Start(IntermittentDocument(type, gs), FALSE)

SpecIntermittent == InitIntermittent /\ [][Next]_vars

\* ------------------------------ documents: a context with nested content

\* The brush a of the definitions: on its own, or its own parent (the
\* resolver drops it).  The timestamp t likewise.
OuterRefs(id) == {None, Hash(id)}

\* The <brush> nested in the context: none (None), or one without id and
\* with the given brushRef.
NestedBrushes == {None, <<"none">>, Hash("a"), Hash("zz")}

\* The <timestamp> nested in the context: none, or one with the id as given
\* (None: no xml:id attribute) and the timestampRef as given.
NestedTimestampIds == {None, <<>>}

NestedTimestampRefs == {None, Hash("t"), <<"t">>}

NestedBrushElement(ref) ==
    Elem("brush", IF ref = <<"none">> THEN NoAttrs ELSE Attr("brushRef", ref), <<>>)

NestedTimestampElement(id, ref) ==
    Elem("timestamp", Attr("xml:id", id) @@ Attr("timestampRef", ref), <<>>)

\* The document whose <definitions> has the brushes a and b, the timestamps
\* t and u, the context c with the nested children given (has_timestamp
\* tells whether there is a nested timestamp) and the context d.
NestedDocument(a_ref, t_ref, brush, has_timestamp, id, ref) ==
    Document(<<Elem("definitions", NoAttrs,
                    <<Elem("brush", Attr("xml:id", <<"a">>) @@ Attr("brushRef", a_ref), <<>>),
                      Elem("brush", Attr("xml:id", <<"b">>) @@ Attr("brushRef", Hash("a")),
                           <<>>),
                      Elem("timestamp",
                           Attr("xml:id", <<"t">>) @@ Attr("timestampRef", t_ref), <<>>),
                      Elem("timestamp",
                           Attr("xml:id", <<"u">>) @@ Attr("timestampRef", Hash("t")), <<>>),
                      Elem("context", Attr("xml:id", <<"d">>) @@ Attr("contextRef", Hash("c")),
                           <<>>),
                      Elem("context", Attr("xml:id", <<"c">>),
                           (IF brush = None THEN <<>> ELSE <<NestedBrushElement(brush)>>)
                           \o (IF has_timestamp THEN <<NestedTimestampElement(id, ref)>>
                               ELSE <<>>))>>)>>)

InitNested ==
    \E a_ref \in OuterRefs("a"), t_ref \in OuterRefs("t"), brush \in NestedBrushes :
      \/ Start(NestedDocument(a_ref, t_ref, brush, FALSE, None, None), FALSE)
      \/ \E id \in NestedTimestampIds, ref \in NestedTimestampRefs :
           Start(NestedDocument(a_ref, t_ref, brush, TRUE, id, ref), FALSE)

SpecNested == InitNested /\ [][Next]_vars

\* ----------------------------------------- documents: groups in groups

\* The trace t stands in up to GroupDepth trace groups, one in the other.
GroupDepth == 3

\* What a level around the trace is: no group (Absent), or a group with no
\* contextRef (None), with #v or with #w.
GroupLevels == {Absent, None, Hash("v"), Hash("w")}

\* The trace formats f (channels A, B) and g (channels C, D) and the
\* contexts v, of format f, and w, of format g.
GroupDefinitions ==
    Elem("definitions", NoAttrs,
         <<TraceFormatElement(<<"f">>, <<"A", "B">>),
           TraceFormatElement(<<"g">>, <<"C", "D">>),
           Elem("context", Attr("xml:id", <<"v">>) @@ Attr("traceFormatRef", Hash("f")),
                <<>>),
           Elem("context", Attr("xml:id", <<"w">>) @@ Attr("traceFormatRef", Hash("g")),
                <<>>)>>)

\* The item in the groups of the levels, the first level outermost.
RECURSIVE Wrapped(_, _)
Wrapped(levels, item) ==
    IF levels = <<>> THEN item
    ELSE IF Head(levels) = Absent THEN Wrapped(Tail(levels), item)
    ELSE Elem("traceGroup", Attr("contextRef", Head(levels)),
              <<Wrapped(Tail(levels), item)>>)

GroupDocument(levels, c) ==
    Document(<<ChainedDefinitions, GroupDefinitions,
               Wrapped(levels,
                       TextElem("trace", Attr("xml:id", <<"t">>) @@ Attr("contextRef", c),
                                <<"1", " ", "2">>))>>)

InitGroups ==
    \E levels \in [1..GroupDepth -> GroupLevels], c \in GroupLevels \ {Absent} :
        Start(GroupDocument(levels, c), FALSE)

SpecGroups == InitGroups /\ [][Next]_vars

\* ------------------------------------------------- Readers of a process

\* At most MaxReaders Readers are constructed before read is called.
MaxReaders == 3

\* What is passed to Reader.__init__ as logger: nothing, a logger that is
\* not the root logger, or the root logger.
Loggers == {"None", "Logger", "RootLogger"}

\* Reader.__init__ (lines 22-34) of one more Reader of the process, before
\* read is called.  Unless it is given the root logger (line 22), it takes
\* logging.getLogger('inkml'), the same logger for all Readers, and adds one
\* more handler for warnings to it.
Reader_init ==
    /\ pc = "read"
    /\ handlers < MaxReaders
    /\ \E logger \in Loggers :
          handlers' = IF logger = "RootLogger" THEN handlers ELSE handlers + 1
    /\ UNCHANGED <<doc, assume_local_refs, other, pc, heap, next_instance_index, theap,
                   definitions, backlog, resolved, log, raised, ink>>

NextReaders ==
    \/ Next
    \/ Reader_init

\* What the <definitions> is filled with: a trace format as it should be,
\* one with a channel without name, and an ink source whose sampleRate has no
\* value.
OffendingAlphabet ==
    <<TraceFormatElement(<<"f">>, <<"A">>),
      Elem("traceFormat", Attr("xml:id", <<"g">>),
           <<Elem("channel", NoAttrs, <<>>), Elem("channel", "name" :> <<"B">>, <<>>)>>),
      InkSourceElement(<<"s">>, <<TraceFormatElement(None, <<"C">>),
                                  Elem("sampleRate", NoAttrs, <<>>)>>)>>

OffendingDocument(f) ==
    Document(<<ChainedDefinitions,
               Elem("definitions", NoAttrs,
                    [i \in 1..Len(f) |-> OffendingAlphabet[f[i]]])>>)

InitReaders ==
    \E n \in 0..2 :
      \E f \in [1..n -> 1..Len(OffendingAlphabet)] : Start(OffendingDocument(f), FALSE)

SpecReaders == InitReaders /\ [][NextReaders]_vars

\* ------------------------------------------- documents: exponents

\* The numbers a point is written with: with an exponent of one digit, of
\* two digits, with a sign in the exponent, and without exponent.
ExponentLiterals ==
    <<<<"1", "e", "1">>, <<"1", "e", "1", "0">>, <<"5", "e", "-", "1">>,
      <<"5", "e", "-", "1", "0">>, <<"2", "E", "+", "1">>, <<"1">>>>

\* The document whose trace t, under the default trace format X, Y, has one
\* point written with the literals given.
ExponentDocument(literals) ==
    Document(<<ChainedDefinitions,
               TextElem("trace", Attr("xml:id", <<"t">>),
                        Join([i \in 1..Len(literals) |-> ExponentLiterals[literals[i]]],
                             <<" ">>))>>)

InitExponents ==
    \E n \in 1..2 :
      \E literals \in [1..n -> 1..Len(ExponentLiterals)] :
        Start(ExponentDocument(literals), FALSE)

SpecExponents == InitExponents /\ [][Next]_vars

\* ------------------------------------------ documents: rounds of a pass

\* Documents for the rounds of a pass: the brushes, timestamps or contexts
\* (tag) with the ids of IdNames reference each other, themselves or nothing
\* known, as f says, beside the definitions that are chained properly.
PassDocument(tag, ref_attr, f) ==
    Document(<<ChainedDefinitions,
               Elem("definitions", NoAttrs, ref_elements(tag, ref_attr, f, 1))>>)

InitPasses ==
    \/ \E f \in [1..NumBrushIds -> RefChoices(NumBrushIds) \cup {DefaultBrushRef}] :
         Start(PassDocument("brush", "brushRef", f), FALSE)
    \/ \E f \in [1..NumBrushIds -> RefChoices(NumBrushIds)] :
         \/ Start(PassDocument("timestamp", "timestampRef", f), FALSE)
         \/ Start(PassDocument("context", "contextRef", f), FALSE)

\* The steps of the three parent passes
PassSteps ==
    \/ resolve_brush_parent_references_enter
    \/ resolve_brush_parent_references_round
    \/ resolve_brush_parent_references_leave
    \/ resolve_timestamp_parent_references_enter
    \/ resolve_timestamp_parent_references_round
    \/ resolve_timestamp_parent_references_leave
    \/ resolve_context_parent_references_enter
    \/ resolve_context_parent_references_round
    \/ resolve_context_parent_references_leave

\* resolve_references runs in the thread of read and nothing holds it up: a
\* step of a pass that is possible is taken in the end.
SpecPasses == InitPasses /\ [][Next]_vars /\ WF_vars(PassSteps)

\* ------------------------------------------- documents: continuations

\* <trace xml:id=id continuation=kind priorRef=prior_ref>body</trace>
ContinuationWithBody(id, kind, prior_ref, body) ==
    TextElem("trace",
             Attr("xml:id", <<id>>) @@ ("continuation" :> kind) @@ Attr("priorRef", prior_ref),
             body)

\* What stands in <ink>: the trace t; its continuation m, with a body of two
\* values and with a body of one value, which the default format X, Y does
\* not take; and the end e after m, likewise.
ContinuationAlphabet ==
    <<TextElem("trace", Attr("xml:id", <<"t">>), <<"1", " ", "2">>),
      ContinuationWithBody("m", "middle", Hash("t"), <<"3", " ", "4">>),
      ContinuationWithBody("m", "middle", Hash("t"), <<"3">>),
      ContinuationWithBody("e", "end", Hash("m"), <<"5", " ", "6">>),
      ContinuationWithBody("e", "end", Hash("m"), <<"'", "5", " ", "6">>)>>

ContinuationDocument(f) ==
    Document(<<ChainedDefinitions>> \o [i \in 1..Len(f) |-> ContinuationAlphabet[f[i]]])

InitContinuations ==
    \E n \in 0..MaxItems :
      \E f \in [1..n -> 1..Len(ContinuationAlphabet)] : Start(ContinuationDocument(f), FALSE)

SpecContinuations == InitContinuations /\ [][Next]_vars

\* ---------------------------- documents: attributes and annotations

\* The element, followed by the text
Followed(e, tail) == [e EXCEPT !.tail = tail]

\* <inkSource xml:id="s"><traceFormat/> child </inkSource>
SourceWith(child) ==
    Elem("inkSource", Attr("xml:id", <<"s">>), <<Elem("traceFormat", NoAttrs, <<>>), child>>)

\* What stands in <definitions>: ink sources with a sample rate, a latency,
\* an active area or a source property; brushes with properties and
\* annotations; timestamps with a time that float takes or does not take.
AttributeDefinitions ==
    <<SourceWith(Elem("sampleRate", Attr("value", <<"5", "9", ".", "9", "4">>), <<>>)),
      SourceWith(Elem("sampleRate", Attr("value", <<"1", "e", "3">>), <<>>)),
      SourceWith(Elem("sampleRate", Attr("value", <<"1", "_", "0">>), <<>>)),
      SourceWith(Elem("sampleRate", Attr("value", <<"a">>), <<>>)),
      SourceWith(Elem("latency", Attr("value", <<" ", "6", "0", " ">>), <<>>)),
      SourceWith(Elem("latency", Attr("value", <<"-", "i", "n", "f">>), <<>>)),
      SourceWith(Elem("latency", Attr("value", <<"1", "_">>), <<>>)),
      SourceWith(Elem("activeArea", NoAttrs, <<>>)),
      SourceWith(Elem("activeArea", Attr("width", <<"a">>) @@ Attr("height", <<"1">>), <<>>)),
      SourceWith(Elem("activeArea", Attr("width", <<"1">>), <<>>)),
      SourceWith(Elem("activeArea", Attr("width", <<"1">>) @@ Attr("height", <<>>), <<>>)),
      SourceWith(Elem("activeArea", Attr("width", <<".", "5">>) @@ Attr("height", <<"2">>),
                      <<>>)),
      SourceWith(Elem("sourceProperty", Attr("value", <<"1">>), <<>>)),
      SourceWith(Elem("sourceProperty", Attr("name", <<"n">>), <<>>)),
      SourceWith(Elem("sourceProperty", Attr("name", <<"n">>) @@ Attr("value", <<"1">>),
                      <<>>)),
      Elem("brush", Attr("xml:id", <<"b">>),
           <<Elem("brushProperty", Attr("value", <<"2">>), <<>>)>>),
      Elem("brush", Attr("xml:id", <<"b">>),
           <<Elem("brushProperty", Attr("name", <<"w">>), <<>>)>>),
      Elem("brush", Attr("xml:id", <<"b">>),
           <<Elem("brushProperty", Attr("name", <<"w">>) @@ Attr("value", <<"2">>),
                  <<Elem("annotationXML", NoAttrs, <<>>)>>)>>),
      Elem("brush", Attr("xml:id", <<"b">>), <<Elem("annotationXML", NoAttrs, <<>>)>>),
      Elem("brush", Attr("xml:id", <<"b">>),
           <<Followed(Elem("annotationXML", NoAttrs, <<>>), <<" ">>)>>),
      Elem("brush", Attr("xml:id", <<"b">>),
           <<Elem("annotationXML", Attr("href", <<"h">>), <<>>),
             Elem("annotationXML", NoAttrs, <<TextElem("x", NoAttrs, <<"y">>)>>),
             TextElem("annotation", NoAttrs, <<>>)>>),
      Elem("timestamp",
           Attr("xml:id", <<"u">>) @@ Attr("time", <<"1", ".", "5">>)
               @@ Attr("timestampRef", Hash("p")), <<>>),
      Elem("timestamp",
           Attr("xml:id", <<"u">>) @@ Attr("time", <<"-", "1">>)
               @@ Attr("timestampRef", Hash("p")), <<>>),
      Elem("timestamp",
           Attr("xml:id", <<"u">>) @@ Attr("time", <<" ", "1", "2", " ">>)
               @@ Attr("timestampRef", Hash("p")), <<>>),
      Elem("timestamp",
           Attr("xml:id", <<"u">>) @@ Attr("time", <<"1", "2", "x">>)
               @@ Attr("timestampRef", Hash("p")), <<>>),
      Elem("timestamp", Attr("xml:id", <<"u">>) @@ Attr("time", <<"N", "a", "N">>), <<>>),
      Elem("timestamp", Attr("xml:id", <<"u">>) @@ Attr("time", <<"+", "I", "n", "f">>),
           <<>>)>>

\* What stands in <ink> after the trace t of three points: traces with a
\* duration or a timeOffset that int takes or does not take, a trace with
\* U+00A0 around its numbers, a group and the root with annotations, and
\* views of t with ranges.
RangedView(from, to) ==
    Elem("traceView", Attr("traceDataRef", Hash("t")) @@ Attr("from", from) @@ Attr("to", to),
         <<>>)

AttributeItems ==
    <<TextElem("trace", Attr("duration", <<"-", "5">>), <<"1", " ", "2">>),
      TextElem("trace", Attr("timeOffset", <<" ", "7", "">>), <<"1", " ", "2">>),
      TextElem("trace", Attr("duration", <<"+", "3">>) @@ Attr("timeOffset", <<"1", "_", "0">>),
               <<"1", " ", "2">>),
      TextElem("trace", Attr("duration", <<"1", ".", "5">>) @@ Attr("timeOffset", <<>>),
               <<"1", " ", "2">>),
      TextElem("trace", Attr("duration", <<"0", "0", "7">>) @@ Attr("timeOffset", <<"-">>),
               <<"1", " ", "2">>),
      TextElem("trace", NoAttrs, <<" ", "1", " ", "-", " ", "5", " ">>),
      TextElem("trace", NoAttrs, <<"1", " ", "'", "", "5">>),
      Elem("traceGroup", Attr("xml:id", <<"g">>),
           <<Elem("annotationXML", NoAttrs, <<>>),
             TextElem("trace", NoAttrs, <<"1", " ", "2">>)>>),
      Elem("annotationXML", NoAttrs, <<>>),
      TextElem("annotation", Attr("type", <<"a">>), <<"x">>),
      RangedView(<<"2">>, <<"3">>),
      RangedView(<<"a">>, <<"1", ":", "b">>),
      RangedView(<<"1", ":", "2", ":", "3">>, <<>>),
      RangedView(<<" ", "1", ":", "-", "2">>, <<"1", ":">>),
      RangedView(None, <<"1", "_", "0", ":", "+", "4">>)>>

AttributeDocument(d, f) ==
    Document(<<ChainedDefinitions,
               Elem("definitions", NoAttrs, [i \in 1..Len(d) |-> AttributeDefinitions[d[i]]]),
               TextElem("trace", Attr("xml:id", <<"t">>),
                        <<"1", " ", "2", ",", "3", " ", "4", ",", "5", " ", "6">>)>>
             \o [i \in 1..Len(f) |-> AttributeItems[f[i]]])

InitAttributes ==
    \E k \in 0..1, n \in 0..2 :
      \E d \in [1..k -> 1..Len(AttributeDefinitions)], f \in [1..n -> 1..Len(AttributeItems)] :
        Start(AttributeDocument(d, f), FALSE)

SpecAttributes == InitAttributes /\ [][Next]_vars

\* ------------------------------------------------ the input, as written
\* What the document says, read off the elements: the claims compare it with
\* what read made of it.

\* The children with the given tag of all <definitions>, in document order.
RECURSIVE children_of(_, _)
children_of(es, tag) ==
    IF es = <<>> THEN <<>>
    ELSE findall(Head(es), tag) \o children_of(Tail(es), tag)

DefinitionChildren(tag) == children_of(findall(doc.root, "definitions"), tag)

\* The ids that the elements with this tag carry.
InputIds(tag) == {get_id(DefinitionChildren(tag)[i]) : i \in 1..Len(DefinitionChildren(tag))}

\* The reference that the element with this id carries: '' where it carries
\* none, None where there is no such element.
InputRef(tag, ref_attr, id) ==
    IF id \in InputIds(tag)
    THEN attr(SelectSeq(DefinitionChildren(tag), LAMBDA e : get_id(e) = id)[1], ref_attr)
    ELSE None

\* Where n steps along the references lead from id; None when the walk falls
\* off the document before.
RECURSIVE Follow(_, _, _, _)
Follow(tag, ref_attr, id, n) ==
    IF n = 0 THEN id
    ELSE IF InputRef(tag, ref_attr, id) \in {None, <<>>} THEN None
    ELSE Follow(tag, ref_attr, to_local_id(InputRef(tag, ref_attr, id)), n - 1)

\* The element with this id is on a cycle of references.
OnCycle(tag, ref_attr, id) ==
    \E n \in 1..Cardinality(InputIds(tag)) : Follow(tag, ref_attr, id, n) = id

\* The references lead from id to an element that has none (or one of roots).
Grounded(tag, ref_attr, roots, id) ==
    \E n \in 0..Cardinality(InputIds(tag)) :
        /\ Follow(tag, ref_attr, id, n) # None
        /\ InputRef(tag, ref_attr, Follow(tag, ref_attr, id, n)) \in roots

BrushOnCycle(id) == OnCycle("brush", "brushRef", id)

BrushGrounded(id) == Grounded("brush", "brushRef", {<<>>, DefaultBrushRef}, id)

\* The references lead from id to a brush on a cycle.
BrushLeadsToCycle(id) ==
    \E n \in 0..Cardinality(InputIds("brush")) :
        /\ Follow("brush", "brushRef", id, n) # None
        /\ BrushOnCycle(Follow("brush", "brushRef", id, n))

\* The parent links lead from the object r to an object without parent.
RECURSIVE ChainEnds(_, _)
ChainEnds(r, fuel) ==
    \/ r = NullRef
    \/ fuel > 0 /\ ChainEnds(heap[r + 1].parent, fuel - 1)

BrushMessages ==
    {i \in 1..Len(log) :
        /\ log[i].sink = "print"
        /\ log[i].msg = "Some brush references are either cyclic or incorrect. Following brushes will be ignored"}

\* ------------------------------------------------------------ the claims

\* C1: after resolve_references, from every Brush, Timestamp and Context that
\* is still in Definitions the parent links reach an object without parent in
\* finitely many steps: no parent chain has a cycle.
C1_ParentChainsAcyclic ==
    pc \in {"resolve_content", "read_traces", "returned"} =>
        /\ \A i \in 1..Len(definitions.brushes) :
               ChainEnds(definitions.brushes[i].v.brush, Len(heap))
        /\ \A i \in 1..Len(definitions.timestamps) :
               ChainEnds(definitions.timestamps[i].v.timestamp, Len(heap))
        /\ \A i \in 1..Len(definitions.contexts) :
               ChainEnds(definitions.contexts[i].v.context, Len(heap))

\* A document with a cycle of brushes has been read, and a brush that was
\* kept has a parent.
C1_Witness ==
    /\ pc = "returned"
    /\ \E id \in InputIds("brush") : BrushOnCycle(id)
    /\ \E i \in 1..Len(definitions.brushes) :
           heap[definitions.brushes[i].v.brush + 1].parent # NullRef

\* C2: when brushes of the document form a parent cycle, every brush on the
\* cycle is absent from the brushes of the output, and exactly one message
\* about brushes was written, which names all the brushes dropped.
C2_CycleDroppedWithOneMessage ==
    (pc = "returned" /\ \E id \in InputIds("brush") : BrushOnCycle(id)) =>
        /\ \A id \in InputIds("brush") :
               BrushOnCycle(id) => ~Has(definitions.brushes, id)
        /\ \A i \in 1..Len(ink.definitions.brushes) :
               ~BrushOnCycle(heap[ink.definitions.brushes[i] + 1].id)
        /\ Cardinality(BrushMessages) = 1
        /\ \A i \in BrushMessages :
               log[i].ids = InputIds("brush") \ Keys(definitions.brushes)

\* The cycle a -> b -> c -> a has been read.
C2_Witness ==
    /\ pc = "returned"
    /\ InputRef("brush", "brushRef", <<"a">>) = Hash("b")
    /\ InputRef("brush", "brushRef", <<"b">>) = Hash("c")
    /\ InputRef("brush", "brushRef", <<"c">>) = Hash("a")

\* C3, as stated: a parent cycle removes only the brushes on the cycle; every
\* other brush of the document, also one whose parent_ref names a brush on
\* the cycle, is still among the brushes of the output.
C3_OnlyCycleRemoved ==
    pc = "returned" =>
        \A id \in InputIds("brush") :
            ~BrushOnCycle(id) /\ (BrushGrounded(id) \/ BrushLeadsToCycle(id))
                => Has(definitions.brushes, id)

\* C3, amended: a brush of the document is among the brushes of the output
\* exactly when its references lead to a brush without parent_ref (or with
\* "#DefaultBrush"); the brushes on a cycle are removed, and so is every
\* brush whose references lead to the cycle or to a brush that is not there.
C3_RemovedIffNotGrounded ==
    pc = "returned" =>
        \A id \in InputIds("brush") : Has(definitions.brushes, id) <=> BrushGrounded(id)

\* A brush on a cycle, a brush off the cycle that references it, and a brush
\* with "#DefaultBrush" that is kept.
C3_Witness ==
    /\ pc = "returned"
    /\ \E id \in InputIds("brush") :
          /\ BrushOnCycle(id)
          /\ \E dep \in InputIds("brush") :
                /\ ~BrushOnCycle(dep)
                /\ InputRef("brush", "brushRef", dep) = <<"#">> \o id
                /\ ~Has(definitions.brushes, dep)
    /\ \E id \in InputIds("brush") :
          /\ InputRef("brush", "brushRef", id) = DefaultBrushRef
          /\ Has(definitions.brushes, id)

\* ---- the definitions as written, by category

Categories == {"trace_formats", "ink_sources", "brushes", "timestamps"}

TagOf(cat) ==
    CASE cat = "trace_formats" -> "traceFormat"
      [] cat = "ink_sources" -> "inkSource"
      [] cat = "brushes" -> "brush"
      [] cat = "timestamps" -> "timestamp"

\* The elements with an id among es.
WithId(es) == SelectSeq(es, LAMBDA e : get_id(e) # None /\ Len(get_id(e)) > 0)

\* The first child with the tag of the category, of every element of es.
RECURSIVE NestedIn(_, _)
NestedIn(es, cat) ==
    IF es = <<>> THEN <<>>
    ELSE (IF found(Head(es), TagOf(cat)) THEN <<find(Head(es), TagOf(cat))>> ELSE <<>>)
         \o NestedIn(Tail(es), cat)

\* The definition elements of the category that one child e of <definitions>
\* carries: e itself, or the trace format inside an ink source.
Carried(e, cat) ==
    IF e.tag = TagOf(cat) THEN <<e>>
    ELSE IF cat = "trace_formats" /\ e.tag = "inkSource" /\ get_id(e) # None
    THEN NestedIn(<<e>>, cat)
    ELSE <<>>

\* The definition elements of the category, those inside contexts included,
\* in the order of the document.
RECURSIVE InDocumentOrder(_, _)
InDocumentOrder(es, cat) ==
    IF es = <<>> THEN <<>>
    ELSE (IF Head(es).tag = "context" THEN NestedIn(<<Head(es)>>, cat)
          ELSE Carried(Head(es), cat))
         \o InDocumentOrder(Tail(es), cat)

\* The children of all <definitions>, in the order of the document.
RECURSIVE AllChildren(_)
AllChildren(ds) == IF ds = <<>> THEN <<>> ELSE Head(ds).children \o AllChildren(Tail(ds))

\* The definition elements of the category outside contexts, in the order
\* in which read_definitions comes to them: in each <definitions>, the trace
\* formats inside ink sources before the trace formats beside them.
RECURSIVE InReadingOrder(_, _)
InReadingOrder(ds, cat) ==
    IF ds = <<>> THEN <<>>
    ELSE (IF cat = "trace_formats"
          THEN NestedIn(WithId(findall(Head(ds), "inkSource")), cat)
          ELSE <<>>)
         \o findall(Head(ds), TagOf(cat))
         \o InReadingOrder(Tail(ds), cat)

\* The last context element of each id, in the order in which the ids first
\* appear: the values of definitions.contexts.
RECURSIVE LastOfEachId(_, _)
LastOfEachId(es, all) ==
    IF es = <<>> THEN <<>>
    ELSE <<all[CHOOSE i \in 1..Len(all) :
                  /\ get_id(all[i]) = get_id(Head(es))
                  /\ \A j \in (i + 1)..Len(all) : get_id(all[j]) # get_id(Head(es))]>>
         \o LastOfEachId(SelectSeq(Tail(es), LAMBDA e : get_id(e) # get_id(Head(es))), all)

RegisteredContexts ==
    LastOfEachId(WithId(children_of(findall(doc.root, "definitions"), "context")),
                 WithId(children_of(findall(doc.root, "definitions"), "context")))

HavingId(es, id) == SelectSeq(es, LAMBDA e : get_id(e) = id)

\* The names of the channels of a <traceFormat>
ChannelNames(e) ==
    [i \in 1..Len(findall(e, "channel")) |-> get(findall(e, "channel")[i], "name")]

NamesOf(channels) == [i \in 1..Len(channels) |-> channels[i].name]

\* The entry of the table of the category under id was read from element e.
EntryIs(cat, id, e) ==
    CASE cat = "trace_formats" ->
           NamesOf(heap[Get(definitions.trace_formats, id) + 1].regular_channels)
               = ChannelNames(e)
      [] cat = "ink_sources" ->
           NamesOf(heap[heap[Get(definitions.ink_sources, id) + 1].trace_format + 1]
                       .regular_channels)
               = ChannelNames(find(e, "traceFormat"))
      [] cat = "brushes" ->
           Get(definitions.brushes, id).parent_ref = attr(e, "brushRef")
      [] cat = "timestamps" ->
           heap[Get(definitions.timestamps, id).timestamp + 1].time
               = (IF has(e, "time") THEN float_number(get(e, "time")) ELSE NoNumber)

Entries(cat, id) == {i \in 1..Len(definitions[cat]) : definitions[cat][i].k = id}

\* The element whose entry the table of the category holds under id, going
\* by the order of reading; an element inside a context counts only when no
\* other carries the id.
Registered(cat, id) ==
    IF HavingId(InReadingOrder(findall(doc.root, "definitions"), cat), id) # <<>>
    THEN Last(HavingId(InReadingOrder(findall(doc.root, "definitions"), cat), id))
    ELSE Head(HavingId(NestedIn(RegisteredContexts, cat), id))

CarriedIds(cat) ==
    {get_id(e) : e \in Range(WithId(InDocumentOrder(
                                 AllChildren(findall(doc.root, "definitions")), cat)))}

RegisteredIds(cat) ==
    {get_id(e) : e \in Range(WithId(InReadingOrder(findall(doc.root, "definitions"), cat)))
                       \cup Range(WithId(NestedIn(RegisteredContexts, cat)))}

\* C6, as stated: read raises only when the XML is not well-formed or the
\* root element is not ink; every other input only warns, and read returns.
C6_OnlyFatalInputsRaise ==
    pc = "raised" => ~doc.wellformed \/ doc.root.tag # "ink"

\* C9, as stated: every top-level <context> with a non-empty id is in
\* Definitions.contexts and in the output, a trace whose contextRef names it
\* resolves to it, and a top-level context without id is not kept.
C9_TopLevelContextsRegistered ==
    pc = "returned" =>
        /\ \A e \in Range(WithId(findall(doc.root, "context"))) :
              /\ Has(definitions.contexts, get_id(e))
              /\ \E j \in 1..Len(ink.definitions.contexts) :
                    heap[ink.definitions.contexts[j] + 1].id = get_id(e)
              /\ \A t \in Range(findall(doc.root, "trace")) :
                    (has(t, "contextRef") /\ get(t, "contextRef") = <<"#">> \o get_id(e)) =>
                        \E k \in 1..Len(ink.traces) :
                            /\ theap[ink.traces[k]].id = get_id(t)
                            /\ theap[ink.traces[k]].context # NullRef
                            /\ heap[theap[ink.traces[k]].context + 1].id = get_id(e)
        /\ ~Has(definitions.contexts, <<>>)

\* C10, as stated: in each category, an id that several definition elements
\* carry has exactly one entry in the output, and it is the element that
\* comes last in the document, also between a trace format inside an ink
\* source and one beside it.
C10_LastInDocumentOrderWins ==
    pc = "returned" =>
        \A cat \in Categories : \A id \in CarriedIds(cat) :
            /\ Cardinality(Entries(cat, id)) = 1
            /\ EntryIs(cat, id,
                       Last(HavingId(InDocumentOrder(
                                         AllChildren(findall(doc.root, "definitions")), cat),
                                     id)))

\* C10, amended: an id has exactly one entry, and it is the element that
\* read_definitions comes to last.  In each <definitions> the trace formats
\* inside ink sources are read before the trace formats beside them, and an
\* element inside a context is registered only when its id has no entry yet.
C10_LastReadWins ==
    pc = "returned" =>
        \A cat \in Categories : \A id \in RegisteredIds(cat) :
            /\ Cardinality(Entries(cat, id)) = 1
            /\ EntryIs(cat, id, Registered(cat, id))

\* A trace format beside an ink source stands before it in one <definitions>,
\* the trace format inside the ink source has the same id, and the entry is
\* the one that stands first in the document.
C10_Witness ==
    /\ pc = "returned"
    /\ \E d \in Range(findall(doc.root, "definitions")) :
          /\ Len(d.children) >= 2
          /\ d.children[1] = TraceFormatElement(<<"f">>, <<"A">>)
          /\ d.children[2] = InkSourceElement(<<"s">>, <<TraceFormatElement(<<"f">>, <<"C">>)>>)
          /\ Len(findall(d, "traceFormat")) = 1
    /\ Len(findall(doc.root, "definitions")) = 2
    /\ EntryIs("trace_formats", <<"f">>, TraceFormatElement(<<"f">>, <<"A">>))

\* ---- the traces as written

\* The <trace> children of <ink>
TraceElements == findall(doc.root, "trace")

\* The items of ink.traces
Items == [k \in 1..Len(ink.traces) |-> theap[ink.traces[k]]]

\* The document returned has a Trace with the id.
Produced(id) == \E k \in 1..Len(Items) : Items[k].cls = "Trace" /\ Items[k].id = id

ProducedTrace(id) == Items[CHOOSE k \in 1..Len(Items) : Items[k].id = id]

\* The points of the body of a trace element, and the number of tokens of each
PointsOf(e) == IF e.text = NoText THEN <<>> ELSE split(e.text, ",")

TokenCounts(e) ==
    [i \in 1..Len(PointsOf(e)) |-> Len(tokenize_expr(strip(PointsOf(e)[i])))]

\* The trace format that the contextRef of a trace element stands for.
FormatOf(e) ==
    IF ~has(e, "contextRef")
    THEN [TraceFormat EXCEPT !.regular_channels = <<Channel(<<"X">>), Channel(<<"Y">>)>>]
    ELSE heap[heap[Get(definitions.contexts, to_local_id(get(e, "contextRef"))).context + 1]
                  .trace_format + 1]

RegularCount(e) == Len(FormatOf(e).regular_channels)

IntermittentCount(e) == Len(FormatOf(e).intermittent_channels)

CountInRange(e, i) ==
    /\ RegularCount(e) <= TokenCounts(e)[i]
    /\ TokenCounts(e)[i] <= RegularCount(e) + IntermittentCount(e)

\* What the decoder makes of the body of a trace element.
Decoded(e) == parse_trace_content(M, e.text, FormatOf(e))

BodyFails(e) == e.text # NoText /\ Decoded(e).st = "fail"

Logged(msg) == \E i \in 1..Len(log) : log[i].sink = "warning" /\ log[i].msg = msg

\* C4: in a Document returned, every regular channel of every Trace has as
\* many values as the body of the trace has points, and every entry of an
\* intermittent channel has an index from 0 up to that number less one.
C4_ChannelLengthsArePointCounts ==
    pc = "returned" =>
        \A e \in Range(TraceElements) :
            Produced(get_id(e)) =>
                /\ \A c \in Range(ProducedTrace(get_id(e)).channels) :
                      Len(c.v) = Len(PointsOf(e))
                /\ \A c \in Range(ProducedTrace(get_id(e)).intermittent_channels) :
                      \A n \in 1..Len(c.v) :
                          0 <= c.v[n].index /\ c.v[n].index < Len(PointsOf(e))

\* A trace of two points is returned with an intermittent sample at its
\* second point.
C4_Witness ==
    /\ pc = "returned"
    /\ Produced(<<"t">>)
    /\ Len(PointsOf(TraceElements[1])) = 2
    /\ \E c \in Range(ProducedTrace(<<"t">>).intermittent_channels) :
          \E n \in 1..Len(c.v) : c.v[n].index = 1
    /\ \A c \in Range(ProducedTrace(<<"t">>).channels) : Len(c.v) = 2

\* C5, as stated: a point with between regular_count and regular_count +
\* intermittent_count tokens is accepted, its tokens after the regular ones
\* going to the first intermittent channels and the other intermittent
\* channels getting no sample for the point; a point with another number of
\* tokens fails the body of the trace (the trace is not read, read goes on).
C5_TokenCountInRangeIsAccepted ==
    pc \in {"returned", "raised"} =>
        \A e \in Range(TraceElements) :
            /\ raised = ""
            /\ (\E i \in 1..Len(PointsOf(e)) : ~CountInRange(e, i)) => ~Produced(get_id(e))
            /\ Produced(get_id(e)) =>
                  \A j \in 1..Len(ProducedTrace(get_id(e)).intermittent_channels) :
                      \A n \in 1..Len(ProducedTrace(get_id(e)).intermittent_channels[j].v) :
                          TokenCounts(e)[ProducedTrace(get_id(e))
                                             .intermittent_channels[j].v[n].index + 1]
                              >= RegularCount(e) + j

\* C7, as stated: a trace element whose body fails to decode is in the
\* Document returned all the same, as a Trace without channels.
C7_FailedBodyYieldsEmptyTrace ==
    pc = "returned" =>
        \A e \in Range(TraceElements) :
            BodyFails(e) =>
                /\ Produced(get_id(e))
                /\ ProducedTrace(get_id(e)).channels = EmptyDict
                /\ ProducedTrace(get_id(e)).intermittent_channels = EmptyDict

\* C7, what read_trace and read_traces do instead: a trace element whose body
\* fails to decode is left out of the Document returned and of
\* Definitions.traces, with the warnings "Could not parse trace content" and
\* "Could not read trace"; the traces whose bodies decode are returned with
\* their channels.
C7_FailedBodyDropsTrace ==
    pc = "returned" =>
        \A e \in Range(TraceElements) :
            IF BodyFails(e)
            THEN /\ ~Produced(get_id(e))
                 /\ ~Has(definitions.traces, get_id(e))
                 /\ Logged("Could not parse trace content")
                 /\ Logged("Could not read trace")
            ELSE /\ Produced(get_id(e))
                 /\ Has(definitions.traces, get_id(e))
                 /\ ProducedTrace(get_id(e)).channels
                        = (IF e.text = NoText THEN EmptyDict
                           ELSE move_channels(EmptyDict, Decoded(e).regular, "values"))

\* The body of trace t has a point with too many tokens, t is left out and the
\* trace u after it is returned.
C7_Witness ==
    /\ pc = "returned"
    /\ BodyFails(TraceElements[1])
    /\ \E i \in 1..Len(PointsOf(TraceElements[1])) : ~CountInRange(TraceElements[1], i)
    /\ ~Produced(<<"t">>)
    /\ Produced(<<"u">>)

\* ---- first differences as written

\* The values of channel X of the trace with the id
ValuesOf(id) == Get(ProducedTrace(id).channels, <<"X">>)

\* The numbers that the points of trace d are written with: the start value
\* and the differences, in halves.
Written(i) ==
    float(IF i = 1 THEN PointsOf(TraceElements[2])[i]
          ELSE Tail(PointsOf(TraceElements[2])[i])).v

ChannelType == FormatOf(TraceElements[1]).regular_channels[1].type

\* C8, as stated: the body x0, 'd1, 'd2 decodes to the same values as the
\* body x0, x0+d1, x0+d1+d2, on a decimal channel and on an integer channel,
\* fractional differences on an integer channel included.
C8_DifferencesRoundTrip ==
    pc = "returned" =>
        /\ Produced(<<"e">>) /\ Produced(<<"d">>)
        /\ ValuesOf(<<"d">>) = ValuesOf(<<"e">>)

\* C8, amended: the two bodies decode to the same values on a decimal
\* channel (the numbers of the model are multiples of 1/2, which floating
\* point adds exactly), and on an integer channel when the start value and
\* the differences are whole numbers.  On an integer channel every value of
\* the difference form is the rounding of the value before it plus the
\* difference, and every value of the explicit form the rounding of the sum.
C8_DifferencesRoundTripOnWholeNumbers ==
    pc = "returned" =>
        /\ Produced(<<"e">>) /\ Produced(<<"d">>)
        /\ (ChannelType = "decimal" \/ \A i \in 1..3 : Written(i) % 2 = 0)
              => ValuesOf(<<"d">>) = ValuesOf(<<"e">>)
        /\ ChannelType = "integer" =>
              /\ ValuesOf(<<"d">>)
                    = <<round(Written(1)),
                        round(round(Written(1)) + Written(2)),
                        round(round(round(Written(1)) + Written(2)) + Written(3))>>
              /\ ValuesOf(<<"e">>)
                    = <<round(Written(1)),
                        round(Written(1) + Written(2)),
                        round(Written(1) + Written(2) + Written(3))>>

\* A decimal channel with fractional differences: both forms give the same
\* three values, which are not all alike.
C8_Witness ==
    /\ pc = "returned"
    /\ ChannelType = "decimal"
    /\ Written(2) % 2 = 1
    /\ Written(3) < 0
    /\ Produced(<<"e">>) /\ Produced(<<"d">>)
    /\ Len(ValuesOf(<<"d">>)) = 3
    /\ ValuesOf(<<"d">>) = ValuesOf(<<"e">>)
    /\ ValuesOf(<<"d">>)[2] = Written(1) + Written(2)

\* ---- traces, groups and views as written

\* The children of <ink>, and those that are <traceView> elements
RootChildren == doc.root.children

\* The document returned has a TraceView that was read from an element with
\* the id.
ProducedView(id) ==
    \E k \in 1..Len(Items) : Items[k].cls = "TraceView" /\ Items[k].ID = id

\* C11, as stated: a traceView element that carries an id is registered in
\* the trace-view table under that id after it is read, and a later traceView
\* whose traceDataRef names it is read as a view of it.
C11_TraceViewsRegistered ==
    pc = "returned" =>
        \A i \in 1..Len(RootChildren) :
            (RootChildren[i].tag = "traceView" /\ ProducedView(get_id(RootChildren[i]))) =>
                /\ Has(definitions.trace_views, get_id(RootChildren[i]))
                /\ \A j \in (i + 1)..Len(RootChildren) :
                      (/\ RootChildren[j].tag = "traceView"
                       /\ get(RootChildren[j], "traceDataRef")
                              = Hash(get_id(RootChildren[i])[1]))
                          => ProducedView(get_id(RootChildren[j]))

\* The continuation traces among the items of the document returned, as
\* positions in ink.traces (the family has them at the root only).
Continuations ==
    {k \in 1..Len(Items) :
        Items[k].cls = "Trace" /\ Items[k].continuation \in {"Middle", "End"}}

\* A <trace> element of kind middle or end
IsContinuationElement(e) ==
    e.tag = "trace" /\ has(e, "continuation") /\ get(e, "continuation") \in {"middle", "end"}

\* A trace element without continuation and without references: it is always
\* read and registered.
PlainTrace(e) ==
    /\ e.tag = "trace"
    /\ ~has(e, "continuation") /\ ~has(e, "contextRef") /\ ~has(e, "brushRef")

\* The priorRef of root child i can be followed: it is there, it is local (or
\* taken as local), and a trace with that id stands before child i.
HasPriorBefore(i) ==
    /\ has(RootChildren[i], "priorRef")
    /\ Len(get(RootChildren[i], "priorRef")) > 0
    /\ is_local_id(get(RootChildren[i], "priorRef")) \/ assume_local_refs
    /\ \E j \in 1..(i - 1) :
          /\ PlainTrace(RootChildren[j])
          /\ get_id(RootChildren[j]) = to_local_id(get(RootChildren[i], "priorRef"))

\* The trace objects with the id that were made before the object at a.
EarlierTraces(a, id) ==
    {b \in 1..(a - 1) : theap[b].cls = "Trace" /\ theap[b].id = id}

\* The element that the item k of the document was read from carries this
\* priorRef (the elements of a document that share an id are alike).
PriorRefOf(k) ==
    get(CHOOSE e \in Range(RootChildren) : e.tag = "trace" /\ get_id(e) = Items[k].id,
        "priorRef")

\* C13: every trace of kind middle or end in the Document returned has a
\* priorRef that names a trace read before it, and the next link of that
\* prior trace is the continuation trace (or a continuation trace read later
\* that names the same prior); a middle or end trace element without
\* priorRef, or whose prior is not found, gives no trace in the Document.
C13_ContinuationHasPrior ==
    pc = "returned" =>
        /\ \A k \in Continuations :
              /\ PriorRefOf(k) # None
              /\ EarlierTraces(ink.traces[k], to_local_id(PriorRefOf(k))) # {}
              /\ \E b \in EarlierTraces(ink.traces[k], to_local_id(PriorRefOf(k))) :
                    /\ theap[b].next >= ink.traces[k]
                    /\ theap[theap[b].next].continuation \in {"Middle", "End"}
                    /\ (\A j \in Continuations : j <= k) => theap[b].next = ink.traces[k]
        /\ \A i \in 1..Len(RootChildren) :
              IsContinuationElement(RootChildren[i]) =>
                  Cardinality({k \in 1..Len(Items) :
                                  Items[k].id = get_id(RootChildren[i])})
                      = Cardinality({j \in 1..Len(RootChildren) :
                                        /\ RootChildren[j] = RootChildren[i]
                                        /\ HasPriorBefore(j)})

\* The trace t, its continuation m and a continuation without prior are
\* read: m is returned, it is the next of t, and the other one is left out.
C13_Witness ==
    /\ pc = "returned"
    /\ Len(Items) = 2
    /\ Items[1].id = <<"t">> /\ Items[2].id = <<"m">>
    /\ Items[2].continuation = "Middle"
    /\ Items[1].next = ink.traces[2]
    /\ IsContinuationElement(Last(RootChildren))
    /\ ~HasPriorBefore(Len(RootChildren))

\* The <trace> elements of the document: those of <ink>, of the
\* <definitions> and of the <traceGroup> elements, in document order.
RECURSIVE trace_elements_in(_)
trace_elements_in(es) ==
    IF es = <<>> THEN <<>>
    ELSE (IF Head(es).tag = "trace" THEN <<Head(es)>>
          ELSE IF Head(es).tag \in {"definitions", "traceGroup"}
          THEN trace_elements_in(Head(es).children)
          ELSE <<>>)
         \o trace_elements_in(Tail(es))

AllTraceElements == trace_elements_in(RootChildren)

\* The objects that the objects of S hold: the data of a view, the traces of
\* a group.
Held(S) ==
    S \cup {theap[a].trace_data : a \in {b \in S : theap[b].cls = "TraceView"}}
      \cup UNION {Range(theap[a].traces) : a \in {b \in S : theap[b].cls = "TraceGroup"}}

\* The objects of the Document returned: the items of ink.traces and what
\* they hold.
RECURSIVE HeldWithin(_)
HeldWithin(S) == IF Held(S) = S THEN S ELSE HeldWithin(Held(S))

InDocument == HeldWithin(Range(ink.traces))

\* The attribute is a local reference to an id that the table, as the
\* resolver left it, does not have.
NamesAbsent(e, name, table) ==
    /\ has(e, name)
    /\ is_local_id(get(e, name))
    /\ ~Has(table, to_local_id(get(e, name)))

\* C14, as stated (require_refs is true on every path that read takes): a
\* trace whose local contextRef or brushRef names an id that the resolved
\* Definitions do not have is not in the Document, and a warning says that
\* the context or the brush of a trace was not found.
C14_MissingReferenceDropsTrace ==
    pc = "returned" =>
        \A e \in Range(AllTraceElements) :
            /\ NamesAbsent(e, "contextRef", definitions.contexts) =>
                  /\ \A a \in InDocument : theap[a].id # get_id(e)
                  /\ Logged("Could not find context referenced by a trace")
            /\ NamesAbsent(e, "brushRef", definitions.brushes) =>
                  /\ \A a \in InDocument : theap[a].id # get_id(e)
                  /\ Logged("Could not find brush referenced by a trace")

\* ---- contexts and formats as written

\* The <trace> element of the document
TheTrace == AllTraceElements[Len(AllTraceElements)]

\* The Context that a contextRef of an element stands for in the resolved
\* Definitions, NullRef where the element has none.
ContextNamed(e) ==
    IF ~has(e, "contextRef") THEN NullRef
    ELSE Get(definitions.contexts, to_local_id(get(e, "contextRef"))).context

\* The context of the <traceGroup> around the trace, NullRef where the trace
\* stands alone.
AmbientContext ==
    IF Last(RootChildren).tag = "traceGroup" THEN ContextNamed(Last(RootChildren))
    ELSE NullRef

\* trace.context if set, else the ambient context of the group
ChosenContext ==
    IF ContextNamed(TheTrace) # NullRef THEN ContextNamed(TheTrace)
    ELSE AmbientContext

\* The contexts from r along the parent links, r first.
RECURSIVE ParentChain(_, _)
ParentChain(r, fuel) ==
    IF r = NullRef \/ fuel = 0 THEN <<>>
    ELSE <<heap[r + 1]>> \o ParentChain(heap[r + 1].parent, fuel - 1)

ChosenChain == ParentChain(ChosenContext, Len(heap))

First(S) == CHOOSE i \in S : \A j \in S : i <= j

WithTraceFormat == {i \in 1..Len(ChosenChain) : ChosenChain[i].trace_format # NullRef}

WithInkSource == {i \in 1..Len(ChosenChain) : ChosenChain[i].ink_source # NullRef}

\* The names of the regular channels of the format that the claim picks.
ClaimedChannelNames ==
    IF WithTraceFormat # {}
    THEN NamesOf(heap[ChosenChain[First(WithTraceFormat)].trace_format + 1].regular_channels)
    ELSE IF WithInkSource # {}
    THEN NamesOf(heap[heap[ChosenChain[First(WithInkSource)].ink_source + 1].trace_format + 1]
                     .regular_channels)
    ELSE <<<<"X">>, <<"Y">>>>

\* The Trace objects of the Document that were read from the <trace> element
TheTraceRead == {a \in InDocument : theap[a].cls = "Trace" /\ theap[a].id = get_id(TheTrace)}

\* C12: the trace is decoded with the format of the first context, from
\* trace.context (or else the context of the group) along the parents, that
\* has a trace format; if none has, with the format of the ink source of the
\* first context that has an ink source; and with the default format X, Y
\* otherwise or when there is no context.  The trace is in the Document when
\* its body has one token per channel of that format, and its channels are
\* then the channels of that format.
C12_EffectiveTraceFormat ==
    pc = "returned" =>
        /\ TheTraceRead # {} <=> Len(tokenize_expr(TheTrace.text)) = Len(ClaimedChannelNames)
        /\ \A a \in TheTraceRead :
              [i \in 1..Len(theap[a].channels) |-> theap[a].channels[i].k]
                  = ClaimedChannelNames

\* The trace references q, which has the ink source s and no trace format,
\* and the parent p of q has the trace format f: the trace has the channel A
\* of f.
C12_Witness ==
    /\ pc = "returned"
    /\ has(TheTrace, "contextRef")
    /\ get(TheTrace, "contextRef") = Hash("q")
    /\ Len(ChosenChain) = 2
    /\ ChosenChain[1].trace_format = NullRef /\ ChosenChain[1].ink_source # NullRef
    /\ ChosenChain[2].trace_format # NullRef
    /\ \E a \in TheTraceRead : Keys(theap[a].channels) = {<<"A">>}

\* ---- integer channels as written

\* The number that token j of point i of trace t is written with, in halves
\* (the marker of a difference left aside).
WrittenToken(i, j) ==
    float(SelectSeq(tokenize_expr(strip(PointsOf(TraceElements[1])[i]))[j],
                    LAMBDA c : c # "'")).v

\* The whole number nearest to h halves, a tie going away from zero, and a
\* tie going to the even whole number (both in halves).
NearestAwayFromZero(h) ==
    IF h % 2 = 0 THEN h ELSE IF h > 0 THEN h + 1 ELSE h - 1

NearestTiesToEven(h) ==
    IF h % 2 = 0 THEN h ELSE IF (h + 1) % 4 = 0 THEN h + 1 ELSE h - 1

\* The entries of the intermittent channel G of trace t
SamplesOfG == Get(ProducedTrace(<<"t">>).intermittent_channels, <<"G">>)

\* C15, as stated: on an integer channel, regular or intermittent, a value
\* halfway between two whole numbers is rounded away from zero, and every
\* other value to the nearest whole number.
C15_HalvesRoundAwayFromZero ==
    pc = "returned" =>
        /\ Produced(<<"t">>)
        /\ ValuesOf(<<"t">>)[1] = NearestAwayFromZero(WrittenToken(1, 1))
        /\ SamplesOfG[1].value = NearestAwayFromZero(WrittenToken(1, 2))
        /\ Len(ValuesOf(<<"t">>)) = 2 =>
              ValuesOf(<<"t">>)[2]
                  = NearestAwayFromZero(ValuesOf(<<"t">>)[1] + WrittenToken(2, 1))

\* C15, amended: on an integer channel, regular or intermittent, a value
\* halfway between two whole numbers is rounded to the even one of the two
\* (0.5 -> 0, 1.5 -> 2, 2.5 -> 2, -0.5 -> 0), and every other value to the
\* nearest whole number; a first difference is added to the rounded value
\* before it and the sum is rounded.
C15_HalvesRoundToEven ==
    pc = "returned" =>
        /\ Produced(<<"t">>)
        /\ ValuesOf(<<"t">>)[1] = NearestTiesToEven(WrittenToken(1, 1))
        /\ SamplesOfG[1].value = NearestTiesToEven(WrittenToken(1, 2))
        /\ Len(ValuesOf(<<"t">>)) = 2 =>
              ValuesOf(<<"t">>)[2]
                  = NearestTiesToEven(ValuesOf(<<"t">>)[1] + WrittenToken(2, 1))

\* The point "2.5 -0.5" with the second point "'0.5 ?": X is 2, then 2 again
\* (2 + 0.5 rounded), and the sample of G is 0.
C15_Witness ==
    /\ pc = "returned"
    /\ WrittenToken(1, 1) = 5
    /\ WrittenToken(1, 2) = 0 - 1
    /\ ValuesOf(<<"t">>) = <<4, 4>>
    /\ WrittenToken(2, 1) = 1
    /\ SamplesOfG = <<IndexValue(0, 0)>>

\* ---- two decodes at once

\* The entities that exist: those of this decode, by heap reference, and
\* those of the other decode, by their place in other.made.
Entities ==
    {<<"this", a>> : a \in 1..Len(heap)} \cup {<<"other", k>> : k \in 1..Len(other.made)}

EntityAt(e) == IF e[1] = "this" THEN heap[e[2]] ELSE other.made[e[2]]

\* The entities of this decode that Accountable.__init__ has numbered, made
\* before the one at a.
NumberedBefore(a) == {b \in 1..(a - 1) : "instance_index" \in DOMAIN heap[b]}

\* C16, as stated: the decodes share no state, so that the entities of this
\* decode are numbered as they are when it runs alone (from 0, in the order
\* they are made), and is_ is true only between an entity and itself.
C16_DecodesShareNoState ==
    /\ \A a \in 1..Len(heap) :
          "instance_index" \in DOMAIN heap[a] =>
              heap[a].instance_index = Cardinality(NumberedBefore(a))
    /\ \A e1 \in Entities, e2 \in Entities :
          is_(EntityAt(e1), EntityAt(e2)).val => e1 = e2

\* ---- the resolver, twice

ReferenceAttributes ==
    {"brushRef", "timestampRef", "contextRef", "traceFormatRef", "inkSourceRef"}

\* No element among es, nor among what they contain, carries a reference.
RECURSIVE WithoutReferences(_)
WithoutReferences(es) ==
    \A i \in 1..Len(es) :
        /\ DOMAIN es[i].attrs \cap ReferenceAttributes = {}
        /\ WithoutReferences(es[i].children)

\* C17: a second call of resolve_references on the Definitions of a document
\* without references leaves the tables of every category and the entities
\* (their parents, and the trace format, ink source, brush and timestamp of
\* every context) as they are.
C17_SecondPassChangesNothing ==
    [][(resolve_references_again /\ WithoutReferences(RootChildren))
          => (definitions' = definitions /\ heap' = heap)]_vars

\* The second pass has run over contexts with nested content and a brush,
\* and the context d has its brush.
C17_Witness ==
    /\ pc = "resolved_again"
    /\ WithoutReferences(RootChildren)
    /\ Has(definitions.brushes, <<"a">>)
    /\ Has(definitions.contexts, <<"d">>)
    /\ Has(definitions.contexts, <<"e">>)
    /\ heap[Get(definitions.contexts, <<"d">>).context + 1].brush
          = Get(definitions.brushes, <<"a">>).brush
    /\ heap[Get(definitions.contexts, <<"e">>).context + 1].ink_source # NullRef

\* ---- the parent passes, one by one

\* What one parent pass has made of the elements with the tag: an element is
\* in the table exactly when its references lead to a root; an element of
\* the table that is a root has no parent, and any other has as parent the
\* entity of the element that its reference names.
PassKeepsGrounded(tag, ref_attr, roots, table, env_field) ==
    /\ Keys(table) \subseteq InputIds(tag)
    /\ \A id \in InputIds(tag) :
          /\ Has(table, id) <=> Grounded(tag, ref_attr, roots, id)
          /\ Has(table, id) =>
                heap[Get(table, id)[env_field] + 1].parent
                    = (IF InputRef(tag, ref_attr, id) \in roots THEN NullRef
                       ELSE Get(table, to_local_id(InputRef(tag, ref_attr, id)))[env_field])

\* C18: after the brush, the timestamp and the context parent pass, the
\* entities kept are exactly those whose parent_ref, followed through the ids
\* of the document, leads to an entity with an empty parent_ref (or, for a
\* brush, with "#DefaultBrush"); each of them that is not such a root has the
\* entity named by its parent_ref as parent; all others are deleted.
C18_PassesKeepGrounded ==
    pc \in {"resolve_content", "read_traces", "returned"} =>
        /\ PassKeepsGrounded("brush", "brushRef", {<<>>, DefaultBrushRef},
                             definitions.brushes, "brush")
        /\ PassKeepsGrounded("timestamp", "timestampRef", {<<>>},
                             definitions.timestamps, "timestamp")
        /\ PassKeepsGrounded("context", "contextRef", {<<>>},
                             definitions.contexts, "context")

\* A timestamp with a parent and a context that references itself: the
\* first is kept with its parent, the second is deleted.
C18_Witness ==
    /\ pc = "returned"
    /\ \E id \in InputIds("timestamp") :
          /\ Has(definitions.timestamps, id)
          /\ heap[Get(definitions.timestamps, id).timestamp + 1].parent # NullRef
    /\ \E id \in InputIds("context") :
          /\ InputRef("context", "contextRef", id) = <<"#">> \o id
          /\ ~Has(definitions.contexts, id)

\* ---- markers as written

\* What channel c (1 for X, 2 for Y) of trace t is written with, point by
\* point, without the whitespace around the tokens.
Column(c) ==
    [i \in 1..Len(PointsOf(TraceElements[1])) |->
        strip(tokenize_expr(strip(PointsOf(TraceElements[1])[i]))[c])]

Markers == {"!", "'", "\""}

Marked(token) == token[1] \in Markers

\* The number that a token is written with, in halves.
NumberOf(token) == float(IF Marked(token) THEN Tail(token) ELSE token).v

\* The difference order in force after the first k tokens of a column: that
\* of the marker of the last number among them that has one, and Explicit
\* where no number among them is marked.
RECURSIVE OrderAfter(_, _)
OrderAfter(col, k) ==
    IF k = 0 THEN "Explicit"
    ELSE IF col[k] = <<"*">> \/ ~Marked(col[k]) THEN OrderAfter(col, k - 1)
    ELSE IF col[k][1] = "!" THEN "Explicit"
    ELSE IF col[k][1] = "'" THEN "Difference"
    ELSE "SecondDifference"

\* The first difference carried after the first k tokens of a column: none
\* at the start and after an explicit value, the number of a first
\* difference, and the sum of the differences since for second differences.
RECURSIVE CarriedDifference(_, _)
CarriedDifference(col, k) ==
    IF k = 0 THEN NaN
    ELSE IF col[k] = <<"*">> THEN CarriedDifference(col, k - 1)
    ELSE IF OrderAfter(col, k) = "Explicit" THEN NaN
    ELSE IF OrderAfter(col, k) = "Difference" THEN Finite(NumberOf(col[k]))
    ELSE IF CarriedDifference(col, k - 1).nan THEN NaN
    ELSE Finite(CarriedDifference(col, k - 1).v + NumberOf(col[k]))

\* The values of channel c of trace t, and a value as a channel of the type
\* of channel c stores it.
ChannelValues(c) == ProducedTrace(<<"t">>).channels[c].v

Stored(c, v) ==
    IF FormatOf(TraceElements[1]).regular_channels[c].type = "integer"
    THEN NearestTiesToEven(v)
    ELSE v

\* C19: a number under the second difference order gives the value before
\* it plus the first difference carried plus the number (rounded on an
\* integer channel), the first difference carried being the number of the
\* last first difference plus the numbers of the second differences since;
\* so 10, '1, "0 gives 10, 11, 12.
C19_SecondDifferenceAccumulates ==
    (pc = "returned" /\ Produced(<<"t">>)) =>
        \A c \in 1..2 :
            \A k \in 1..Len(Column(c)) :
                (Column(c)[k] # <<"*">> /\ OrderAfter(Column(c), k) = "SecondDifference") =>
                    /\ k > 1
                    /\ ~CarriedDifference(Column(c), k - 1).nan
                    /\ ChannelValues(c)[k]
                          = Stored(c, ChannelValues(c)[k - 1]
                                      + CarriedDifference(Column(c), k - 1).v
                                      + NumberOf(Column(c)[k]))

\* X is written 10, '1, "1, "0 and Y 20, '2, "0, "0: X is 10, 11, 13, 15 and
\* Y is 20, 22, 24, 26.
C19_Witness ==
    /\ pc = "returned"
    /\ Produced(<<"t">>)
    /\ Column(1) = <<<<"1", "0">>, <<"'", "1">>, <<"\"", "1">>, <<"\"", "0">>>>
    /\ ChannelValues(1) = <<20, 22, 26, 30>>
    /\ ChannelValues(2) = <<40, 44, 48, 52>>

\* C20: a number without marker is decoded under the order of the last
\* number before it in the same channel (Explicit where there is none), and
\* a number with a marker under the order of its marker, whatever the tokens
\* of the other channel are marked with.
C20_OrderIsPerChannel ==
    (pc = "returned" /\ Produced(<<"t">>)) =>
        \A c \in 1..2 :
            \A k \in 1..Len(Column(c)) :
                Column(c)[k] # <<"*">> =>
                    ChannelValues(c)[k]
                        = Stored(c,
                                 CASE OrderAfter(Column(c), k) = "Explicit" ->
                                          NumberOf(Column(c)[k])
                                   [] OrderAfter(Column(c), k) = "Difference" ->
                                          ChannelValues(c)[k - 1] + NumberOf(Column(c)[k])
                                   [] OTHER ->
                                          ChannelValues(c)[k - 1]
                                          + CarriedDifference(Column(c), k - 1).v
                                          + NumberOf(Column(c)[k]))

\* X is written 10, '1, 1, !2 and Y 20, '2, 2, 2: the third number of X is a
\* first difference like the one before it, the ! of the fourth makes X
\* explicit and leaves Y with its first differences.
C20_Witness ==
    /\ pc = "returned"
    /\ Produced(<<"t">>)
    /\ Column(1) = <<<<"1", "0">>, <<"'", "1">>, <<"1">>, <<"!", "2">>>>
    /\ Column(2) = <<<<"2", "0">>, <<"'", "2">>, <<"2">>, <<"2">>>>
    /\ ChannelValues(1) = <<20, 22, 24, 4>>
    /\ ChannelValues(2) = <<40, 44, 48, 52>>

\* ---- tokens that cannot be decoded

\* Token k of a column is a first difference where the channel has no value
\* yet, or a second difference where no first difference was decoded since
\* the start or since the last explicit value of the column.
Undecodable(col, k) ==
    /\ col[k] # <<"*">>
    /\ \/ OrderAfter(col, k) = "Difference" /\ k = 1
       \/ OrderAfter(col, k) = "SecondDifference" /\ CarriedDifference(col, k - 1).nan

\* C21: a trace in which a channel has a second difference with no first
\* difference since the start or since the last explicit value of that
\* channel, or a first difference before any value, is not decoded: the
\* Document has no trace and a warning is written.
C21_DifferenceWithoutBaseFailsTrace ==
    pc = "returned" =>
        \A c \in 1..2 :
            \A k \in 1..Len(Column(c)) :
                Undecodable(Column(c), k) =>
                    /\ ~Produced(<<"t">>)
                    /\ ink.traces = <<>>
                    /\ Logged("Unexpected value in channel (regular)")

\* X is written 10, '1, !2, "0: the first difference came before the explicit
\* value, and the second difference after it fails the trace.
C21_Witness ==
    /\ pc = "returned"
    /\ Column(1) = <<<<"1", "0">>, <<"'", "1">>, <<"!", "2">>, <<"\"", "0">>>>
    /\ Undecodable(Column(1), 4)
    /\ ~Produced(<<"t">>)

\* ---- wildcards

\* The value of a number of channel c decoded under the given order, after
\* the value prev, with the first difference carried
ValueUnder(c, order, carried, prev, num) ==
    Stored(c, CASE order = "Explicit" -> num
                [] order = "Difference" -> prev + num
                [] OTHER -> prev + carried.v + num)

\* C22: a '*' of a regular channel at the first point fails the trace; at a
\* later point it gives the value before it once more, and the number after
\* it is decoded with the order (unless it has a marker of its own) and the
\* first difference that were in force before the '*'.
C22_WildcardRepeatsAndKeepsOrder ==
    pc = "returned" =>
        \A c \in 1..2 :
            \A k \in 1..Len(Column(c)) :
                Column(c)[k] = <<"*">> =>
                    IF k = 1
                    THEN ~Produced(<<"t">>) /\ Logged("Unexpected value in channel (regular)")
                    ELSE Produced(<<"t">>) =>
                           /\ ChannelValues(c)[k] = ChannelValues(c)[k - 1]
                           /\ (k < Len(Column(c)) /\ Column(c)[k + 1] # <<"*">>) =>
                                 ChannelValues(c)[k + 1]
                                   = ValueUnder(c,
                                                IF Marked(Column(c)[k + 1])
                                                THEN OrderAfter(Column(c), k + 1)
                                                ELSE OrderAfter(Column(c), k - 1),
                                                CarriedDifference(Column(c), k - 1),
                                                ChannelValues(c)[k],
                                                NumberOf(Column(c)[k + 1]))

\* X is written 10, '1, *, 1: the '*' repeats 11 and the 1 after it is still
\* a first difference, so X is 10, 11, 11, 12.
C22_Witness ==
    /\ pc = "returned"
    /\ Produced(<<"t">>)
    /\ Column(1) = <<<<"1", "0">>, <<"'", "1">>, <<"*">>, <<"1">>>>
    /\ ChannelValues(1) = <<20, 22, 22, 24>>

\* X is written 10, '1, *, "0: the second difference after the '*' finds the
\* first difference 1 still carried, so X is 10, 11, 11, 12.
C22_WitnessCarried ==
    /\ pc = "returned"
    /\ Produced(<<"t">>)
    /\ Column(1) = <<<<"1", "0">>, <<"'", "1">>, <<"*">>, <<"\"", "0">>>>
    /\ ChannelValues(1) = <<20, 22, 22, 24>>

\* ---- intermittent channels as written

\* What the intermittent channel G of trace t is written with, point by
\* point (the second token of each point), and the type of the channel
GColumn ==
    [i \in 1..Len(PointsOf(TraceElements[1])) |->
        strip(tokenize_expr(strip(PointsOf(TraceElements[1])[i]))[2])]

GType == FormatOf(TraceElements[1]).intermittent_channels[1].type

\* The entries of G in the trace t of the Document
GEntries == Get(ProducedTrace(<<"t">>).intermittent_channels, <<"G">>)

\* A token that stands for a value of a channel of the type: T or F on a
\* boolean channel, and on the others a number with an optional sign and
\* without marker.
StandsForValue(type, token) ==
    IF type = "boolean" THEN token \in {<<"T">>, <<"F">>}
    ELSE \A i \in 1..Len(token) : token[i] \in Digits \cup {".", "-"}

\* The value that such a token stands for, in halves
ValueWritten(type, token) ==
    IF type = "boolean" THEN (IF token = <<"T">> THEN 2 ELSE 0)
    ELSE IF type = "integer"
    THEN NearestTiesToEven(IF token[1] = "-" THEN 0 - float(Tail(token)).v
                           ELSE float(token).v)
    ELSE IF token[1] = "-" THEN 0 - float(Tail(token)).v ELSE float(token).v

\* The entries that the first k points of a column stand for: none for a
\* '?', the value of the last entry for a '*', the value written otherwise,
\* each with the number of its point, counted from 0.
RECURSIVE EntriesWritten(_, _, _)
EntriesWritten(type, col, k) ==
    IF k = 0 THEN <<>>
    ELSE IF col[k] = <<"?">> THEN EntriesWritten(type, col, k - 1)
    ELSE Append(EntriesWritten(type, col, k - 1),
                IndexValue(k - 1,
                           IF col[k] = <<"*">>
                           THEN Last(EntriesWritten(type, col, k - 1)).value
                           ELSE ValueWritten(type, col[k])))

\* Point k of the column cannot be decoded: a '*' with no entry before it,
\* or a token that stands for no value of the type.
NotAccepted(type, col, k) ==
    /\ col[k] # <<"?">>
    /\ IF col[k] = <<"*">> THEN \A h \in 1..(k - 1) : col[h] = <<"?">>
       ELSE ~StandsForValue(type, col[k])

\* C23: where a '*' of the intermittent channel has no entry before it, or a
\* token stands for no value, the trace is not decoded; otherwise the
\* entries of the channel are, in the order of the points, one for every
\* token other than '?', with the zero-based number of its point as index
\* (so the indices increase strictly) and the value written taken as it is,
\* a '*' having the value of the entry before it.
C23_IntermittentEntries ==
    pc = "returned" =>
        IF \E k \in 1..Len(GColumn) : NotAccepted(GType, GColumn, k)
        THEN ~Produced(<<"t">>)
        ELSE /\ Produced(<<"t">>)
             /\ GEntries = EntriesWritten(GType, GColumn, Len(GColumn))
             /\ Len(GEntries) = Cardinality({k \in 1..Len(GColumn) : GColumn[k] # <<"?">>})
             /\ \A a \in 1..Len(GEntries) :
                    /\ GColumn[GEntries[a].index + 1] # <<"?">>
                    /\ \A b \in (a + 1)..Len(GEntries) :
                           GEntries[a].index < GEntries[b].index

\* G is written 1, ?, 3 on a decimal channel: the entries are (0, 1) and
\* (2, 3).
C23_Witness ==
    /\ pc = "returned"
    /\ Produced(<<"t">>)
    /\ GType = "decimal"
    /\ GColumn = <<<<"1">>, <<"?">>, <<"3">>>>
    /\ GEntries = <<IndexValue(0, 2), IndexValue(2, 6)>>

\* G is written ?, 3, *: the '*' repeats the 3 at index 2.
C23_WitnessWildcard ==
    /\ pc = "returned"
    /\ Produced(<<"t">>)
    /\ GColumn = <<<<"?">>, <<"3">>, <<"*">>>>
    /\ GEntries = <<IndexValue(1, 6), IndexValue(2, 6)>>

\* G is written ?, *, 1: the '*' finds no entry and the trace is dropped.
C23_WitnessFailed ==
    /\ pc = "returned"
    /\ GColumn = <<<<"?">>, <<"*">>, <<"1">>>>
    /\ ~Produced(<<"t">>)

\* ---- nested content of a context

\* The <context> with the id c, as written, and the Context made of it
ContextElementC ==
    SelectSeq(DefinitionChildren("context"), LAMBDA e : get_id(e) = <<"c">>)[1]

ContextC == heap[Get(definitions.contexts, <<"c">>).context + 1]

\* The element nested in context c under the tag refers to the entity of
\* the table under the id, which the resolver kept.
NestedRefersTo(tag, ref_attr, table, id) ==
    /\ found(ContextElementC, tag)
    /\ attr(find(ContextElementC, tag), ref_attr) = <<"#">> \o id
    /\ Has(table, id)

\* The nested brush without id is the brush of the context, and its parent
\* is the brush that its brushRef names.
NestedBrushAttached ==
    found(ContextElementC, "brush") =>
        /\ ContextC.brush # NullRef
        /\ heap[ContextC.brush + 1].id = <<>>
        /\ NestedRefersTo("brush", "brushRef", definitions.brushes, <<"a">>) =>
               heap[ContextC.brush + 1].parent = Get(definitions.brushes, <<"a">>).brush

\* The same for the nested timestamp without id.
NestedTimestampAttached ==
    found(ContextElementC, "timestamp") =>
        /\ ContextC.timestamp # NullRef
        /\ NestedRefersTo("timestamp", "timestampRef", definitions.timestamps, <<"t">>) =>
               heap[ContextC.timestamp + 1].parent
                   = Get(definitions.timestamps, <<"t">>).timestamp

\* C24: a brush or a timestamp without id nested in a context is the brush
\* or the timestamp of that context, and where it refers with #id to an
\* entity that the parent passes kept, that entity is its parent.
C24_NestedContentAttached ==
    pc = "returned" => NestedBrushAttached /\ NestedTimestampAttached

\* The half of C24 about brushes
C24_NestedBrushAttached == pc = "returned" => NestedBrushAttached

\* A nested timestamp with an empty xml:id is the timestamp of the context.
C24_EmptyIdTimestampAttached ==
    (/\ pc = "returned"
     /\ found(ContextElementC, "timestamp")
     /\ get_id(find(ContextElementC, "timestamp")) # None) =>
        ContextC.timestamp # NullRef

\* The nested brush has brushRef #a, brush a was kept, and the brush of the
\* context has brush a as parent.
C24_BrushReached ==
    /\ pc = "returned"
    /\ NestedRefersTo("brush", "brushRef", definitions.brushes, <<"a">>)
    /\ heap[ContextC.brush + 1].parent = Get(definitions.brushes, <<"a">>).brush

\* The nested timestamp has an empty xml:id and timestampRef #t, timestamp t
\* was kept, and the timestamp of the context has no parent.
C24_TimestampParentMissing ==
    /\ pc = "returned"
    /\ NestedRefersTo("timestamp", "timestampRef", definitions.timestamps, <<"t">>)
    /\ ContextC.timestamp # NullRef
    /\ heap[ContextC.timestamp + 1].parent = NullRef

\* The nested timestamp has no xml:id and the context has no timestamp.
C24_TimestampMissing ==
    /\ pc = "returned"
    /\ found(ContextElementC, "timestamp")
    /\ get_id(find(ContextElementC, "timestamp")) = None
    /\ ContextC.timestamp = NullRef

\* ---- groups around a trace, as written

\* The <traceGroup> elements around the trace of the document, the outermost
\* first, from the element e inwards
RECURSIVE GroupsFrom(_)
GroupsFrom(e) ==
    IF e.tag = "traceGroup" THEN <<e>> \o GroupsFrom(e.children[1]) ELSE <<>>

GroupsAround == GroupsFrom(Last(RootChildren))

\* The groups around the trace that carry a context
GroupsWithContext == {i \in 1..Len(GroupsAround) : has(GroupsAround[i], "contextRef")}

Innermost(S) == CHOOSE i \in S : \A j \in S : j <= i

\* The element whose contextRef decides: the trace itself, else the nearest
\* group around it that has a contextRef; None where there is no such
\* element.
DecidingElements ==
    IF has(TheTrace, "contextRef") THEN <<TheTrace>>
    ELSE IF GroupsWithContext # {} THEN <<GroupsAround[Innermost(GroupsWithContext)]>>
    ELSE <<>>

\* The names of the channels of the trace format of that context, X and Y
\* where no context applies
NamesUnderContext ==
    IF DecidingElements = <<>> THEN <<<<"X">>, <<"Y">>>>
    ELSE NamesOf(heap[heap[ContextNamed(DecidingElements[1]) + 1].trace_format + 1]
                     .regular_channels)

\* C25: the trace is decoded with the trace format of its own context or,
\* where it has none, with that of the context of the nearest group around
\* it that has a context, at whatever depth; with no context at all it is
\* decoded with the default format.
C25_NearestGroupContext ==
    pc = "returned" =>
        /\ TheTraceRead # {}
        /\ \A a \in TheTraceRead :
              [i \in 1..Len(theap[a].channels) |-> theap[a].channels[i].k]
                  = NamesUnderContext

\* The trace has no contextRef and stands in three groups, the outermost
\* with context w, the middle one with context v, the innermost with none:
\* it has the channels A and B of v.
C25_Witness ==
    /\ pc = "returned"
    /\ ~has(TheTrace, "contextRef")
    /\ Len(GroupsAround) = 3
    /\ attr(GroupsAround[1], "contextRef") = Hash("w")
    /\ attr(GroupsAround[2], "contextRef") = Hash("v")
    /\ ~has(GroupsAround[3], "contextRef")
    /\ \E a \in TheTraceRead :
          [i \in 1..Len(theap[a].channels) |-> theap[a].channels[i].k] = <<<<"A">>, <<"B">>>>

\* The trace has the contextRef #w and stands in a group with context v: it
\* has the channels C and D of w.
C25_WitnessOwn ==
    /\ pc = "returned"
    /\ attr(TheTrace, "contextRef") = Hash("w")
    /\ Len(GroupsAround) > 0
    /\ attr(GroupsAround[Len(GroupsAround)], "contextRef") = Hash("v")
    /\ \E a \in TheTraceRead :
          [i \in 1..Len(theap[a].channels) |-> theap[a].channels[i].k] = <<<<"C">>, <<"D">>>>

\* ---- warnings as written

\* How many records with the message the handlers have written
WarningsWritten(msg) ==
    Cardinality({i \in 1..Len(log) : log[i].sink = "warning" /\ log[i].msg = msg})

\* The <channel> elements without name of the trace formats of the
\* definitions, and the <sampleRate> elements without value of the ink
\* sources
NamelessChannels ==
    SelectSeq(children_of(DefinitionChildren("traceFormat"), "channel"),
              LAMBDA c : ~has(c, "name"))

ValuelessSampleRates ==
    SelectSeq(children_of(DefinitionChildren("inkSource"), "sampleRate"),
              LAMBDA r : ~has(r, "value"))

WarnedOncePerElement ==
    /\ WarningsWritten("Attribute \"name\" is required for channel element")
           = Len(NamelessChannels)
    /\ WarningsWritten("Attribute \"value\" is required for sampleRate element")
           = Len(ValuelessSampleRates)

\* C26, as stated: however many Readers were constructed before, one warning
\* is written for every channel without name and for every sampleRate without
\* value.
C26_OneWarningPerOffendingElement == pc = "returned" => WarnedOncePerElement

\* With the first Reader of the process it is so.
C26_FirstReaderWarnsOnce == (pc = "returned" /\ handlers = 1) => WarnedOncePerElement

\* Every Reader constructed multiplies the warnings.
C26_WarningsPerReader ==
    pc = "returned" =>
        /\ WarningsWritten("Attribute \"name\" is required for channel element")
               = handlers * Len(NamelessChannels)
        /\ WarningsWritten("Attribute \"value\" is required for sampleRate element")
               = handlers * Len(ValuelessSampleRates)

\* Two Readers were constructed, the document has one channel without name,
\* and the warning is written twice.
C26_WarnedTwice ==
    /\ pc = "returned"
    /\ handlers = 2
    /\ Len(NamelessChannels) = 1
    /\ WarningsWritten("Attribute \"name\" is required for channel element") = 2

\* ---- exponents as written

\* The point of trace t, the literals it is written with (what stands
\* between the blanks) and the tokens it is taken apart into, without the
\* whitespace around them
ThePoint == strip(PointsOf(TraceElements[1])[1])

LiteralsWritten == split(ThePoint, " ")

TokensLexed ==
    [i \in 1..Len(tokenize_expr(ThePoint)) |-> strip(tokenize_expr(ThePoint)[i])]

\* C27, as stated: every literal of the point, whatever the number of
\* digits of its exponent, is one token.
C27_ExponentLiteralIsOneToken == pc = "returned" => TokensLexed = LiteralsWritten

\* A literal has an exponent of one digit at most: after e or E and an
\* optional sign, one digit ends it.
OneDigitExponent(literal) ==
    \A i \in 1..Len(literal) :
        literal[i] \in {"e", "E"} =>
            Len(literal) = (IF literal[i + 1] \in {"+", "-"} THEN i + 2 ELSE i + 1)

\* Literals whose exponent has one digit are one token each.
C27_OneDigitExponentIsOneToken ==
    (pc = "returned" /\ \A i \in 1..Len(LiteralsWritten) : OneDigitExponent(LiteralsWritten[i]))
        => TokensLexed = LiteralsWritten

\* The point is written 1e10: it is taken apart into 1e1 and 0, and the
\* trace has 10 in X and 0 in Y.
C27_SplitInTwo ==
    /\ pc = "returned"
    /\ LiteralsWritten = <<<<"1", "e", "1", "0">>>>
    /\ TokensLexed = <<<<"1", "e", "1">>, <<"0">>>>
    /\ Produced(<<"t">>)
    /\ ChannelValues(1) = <<20>>
    /\ ChannelValues(2) = <<0>>

\* The point is written 1e10 1: three tokens, and the trace is dropped.
C27_SplitDropsTrace ==
    /\ pc = "returned"
    /\ LiteralsWritten = <<<<"1", "e", "1", "0">>, <<"1">>>>
    /\ Len(TokensLexed) = 3
    /\ ~Produced(<<"t">>)

\* ---- the rounds of a parent pass

\* Where the loops of the three passes stand, and the table of the pass
\* under way
PassLoops == {"brush_loop", "timestamp_loop", "context_loop"}

PassTable ==
    CASE pc = "brush_loop" -> definitions.brushes
      [] pc = "timestamp_loop" -> definitions.timestamps
      [] OTHER -> definitions.contexts

\* In a loop the backlog holds only entities that have a parent reference,
\* and none that is resolved.
BacklogHasReferences ==
    pc \in PassLoops =>
        /\ backlog \cap resolved = {}
        /\ \A id \in backlog : Has(PassTable, id) /\ Get(PassTable, id).parent_ref # <<>>

\* A step that stays in a loop is a round that goes on: it takes at least
\* one id out of the backlog and puts it into resolved.
RoundMovesAnId ==
    (pc \in PassLoops /\ pc' = pc) =>
        /\ backlog' \subseteq backlog
        /\ backlog' # backlog
        /\ resolved' = resolved \cup (backlog \ backlog')

\* C28: every round of a parent pass either moves at least one id from the
\* backlog, which holds only entities with a parent reference, to the
\* resolved set, or ends the loop; so a pass has at most as many rounds as
\* there are entities with a parent reference, and one more, and every pass
\* that is entered is left, cycles and missing ids or not.
C28_PassesTerminate ==
    /\ []BacklogHasReferences
    /\ [][RoundMovesAnId]_vars
    /\ (pc = "resolve_brush") ~> (pc = "resolve_timestamp")
    /\ (pc = "resolve_timestamp") ~> (pc = "resolve_context")
    /\ (pc = "resolve_context") ~> (pc = "resolve_content")

\* The brush pass is left with a brush that a round has given its parent,
\* and with the message about brushes on a cycle or with a missing parent.
C28_Witness ==
    /\ pc = "resolve_timestamp"
    /\ \E i \in 1..Len(definitions.brushes) :
          /\ definitions.brushes[i].v.parent_ref # <<>>
          /\ heap[definitions.brushes[i].v.brush + 1].parent # NullRef
    /\ \E i \in 1..Len(log) :
          /\ log[i].sink = "print"
          /\ log[i].msg = "Some brush references are either cyclic or incorrect. Following brushes will be ignored"

\* ---- traces that were accepted

\* The traces that read accepted: those of the Document and those registered
\* under their id.
AcceptedTraces ==
    {a \in InDocument \cup {definitions.traces[i].v : i \in 1..Len(definitions.traces)} :
        theap[a].cls = "Trace"}

\* C29, as stated: the next of a trace that was accepted is a trace that was
\* accepted.
C29_NextIsAccepted ==
    pc = "returned" =>
        \A a \in AcceptedTraces : theap[a].next # NullRef => theap[a].next \in AcceptedTraces

\* The continuation m of t has a body of one value: m is not in the
\* Document, and it is the next of t.
C29_NextWasDropped ==
    /\ pc = "returned"
    /\ Len(Items) = 1
    /\ Items[1].id = <<"t">>
    /\ Items[1].next # NullRef
    /\ Items[1].next \notin AcceptedTraces
    /\ theap[Items[1].next].id = <<>>
    /\ Logged("Could not parse trace content")

\* Where every body can be decoded, the statement holds.
C29_NextIsAcceptedOfDecoded ==
    (pc = "returned" /\ ~Logged("Could not parse trace content")) =>
        \A a \in AcceptedTraces : theap[a].next # NullRef => theap[a].next \in AcceptedTraces

\* ---- what the Document points to

\* The traces and groups of the Document, and those of them that stand in
\* <ink> or in a group rather than in <definitions>.
TracesAndGroups == {a \in InDocument : theap[a].cls \in {"Trace", "TraceGroup"}}

ReadAfterResolver == Held(Range(ink.traces)) \ {theap[a].trace_data :
                        a \in {b \in InDocument : theap[b].cls = "TraceView"}}

\* The entities of the list have their parents in the list.
ParentsListed(list) ==
    \A i \in 1..Len(list) :
        heap[list[i] + 1].parent # NullRef => heap[list[i] + 1].parent \in Range(list)

\* The context and the brush of each of the objects are listed in the
\* Definitions returned.
PointsToListed(S) ==
    \A a \in S :
        /\ theap[a].context # NullRef => theap[a].context \in Range(ink.definitions.contexts)
        /\ theap[a].brush # NullRef => theap[a].brush \in Range(ink.definitions.brushes)

\* C30, as stated: in the Document returned, the context and the brush of
\* every trace and group, and the parent of every brush, timestamp and
\* context of the Definitions, are listed in the Definitions.
C30_NothingPointsToDropped ==
    pc = "returned" =>
        /\ PointsToListed(TracesAndGroups)
        /\ ParentsListed(ink.definitions.brushes)
        /\ ParentsListed(ink.definitions.timestamps)
        /\ ParentsListed(ink.definitions.contexts)

\* The view k holds the trace w of the definitions, and the brush of w is
\* the brush a, which the resolver deleted.
C30_ViewHoldsDroppedBrush ==
    /\ pc = "returned"
    /\ ~Has(definitions.brushes, <<"a">>)
    /\ \E v \in Range(ink.traces) :
          /\ theap[v].cls = "TraceView"
          /\ theap[theap[v].trace_data].cls = "Trace"
          /\ theap[theap[v].trace_data].id = <<"w">>
          /\ theap[theap[v].trace_data].brush # NullRef
          /\ theap[theap[v].trace_data].brush \notin Range(ink.definitions.brushes)

\* The statement holds for the parents of the listed entities and for the
\* traces and groups that are read after the resolver.
C30_ReadAfterResolverPointsToListed ==
    pc = "returned" =>
        /\ PointsToListed(ReadAfterResolver \cap TracesAndGroups)
        /\ ParentsListed(ink.definitions.brushes)
        /\ ParentsListed(ink.definitions.timestamps)
        /\ ParentsListed(ink.definitions.contexts)

\* A trace with the brush p is in the Document; p is listed, and so is the
\* brush q with its parent p.
C30_BrushAndParentListed ==
    /\ pc = "returned"
    /\ \E a \in ReadAfterResolver :
          /\ theap[a].cls = "Trace"
          /\ theap[a].brush \in Range(ink.definitions.brushes)
          /\ \E i \in 1..Len(ink.definitions.brushes) :
                heap[ink.definitions.brushes[i] + 1].parent = theap[a].brush
====
